---- MODULE Spec2Model ----
(***************************************************************************)
(* Model of the research-augmented analysis pipeline of ARQ6:              *)
(*   src/src/services/deepseek_client.py  (WebSearcher, DeepSeekClient)    *)
(*                                                                         *)
(*   src/src/routes/analysis.py           (POST /analyze)                  *)
(*                                                                         *)
(* A text (the model's reply, a request field, the API key) is the         *)
(* sequence of its characters.  The research digest, which the program     *)
(* only writes, is held as the pieces it is put together from, "\n" being  *)
(* a piece of its own.                                                     *)
(***************************************************************************)
EXTENDS Integers, Sequences, FiniteSets, TLC

VARIABLES
    apiKey,       \* os.getenv('DEEPSEEK_API_KEY'): None or a text
    client,       \* self.client is not None
    data,         \* the request dict handed to analyze_avatar_comprehensive
    pc,           \* position of the request thread
    nsub,         \* competitor futures submitted / collected so far
    tasks,        \* work items of the ThreadPoolExecutor, in submission order
    calls,        \* search_google calls: call id -> query and outcome
    research,     \* research_data of _conduct_market_research
    llm,          \* outcome of chat.completions.create: idle, raised, returned
    content,      \* response.choices[0].message.content
    extracted,    \* what _extract_and_validate_json returned (line 253), as it was then
    analysis,     \* the local `analysis`: the dict that enrichment and the route write into
    result,       \* what analyze_avatar_comprehensive returned or raised
    llmCalls,     \* calls of chat.completions.create
    researchRuns, \* calls of _conduct_market_research
    digest,       \* market_insights, the research digest rendered into the prompt
    sg,           \* one search_google call taken alone: its arguments, page, result
    reqBody,      \* request.get_json() of POST /analyze
    supabase,     \* the store client is configured (routes/analysis.py line 23-33)
    rpc,          \* position of analyze_market: none, received, core, responded
    analysisId,   \* analysis_id of analyze_market (None or the inserted row's id)
    response,     \* the HTTP response of analyze_market: status and JSON body
    floats,       \* preco_float, objetivo_receita_float, orcamento_marketing_float
    storeLog      \* insert / update calls made on the store, with their outcomes

\* the state of the HTTP route
web == <<reqBody, supabase, rpc, analysisId, response, floats, storeLog>>

vars == <<apiKey, client, data, pc, nsub, tasks, calls, research, llm, content,
          extracted, analysis, result, llmCalls, researchRuns, digest, sg, web>>

(***************************************************************************)
(* Bounds of the model.                                                    *)
(***************************************************************************)
MaxAffix == 2       \* characters of free text before / after a JSON body
MaxHits == 1        \* result blocks on a search page

(***************************************************************************)
(* Python values.  JSON values are tagged records; a dict is a function    *)
(* from its keys (strings) to values.                                      *)
(***************************************************************************)
None == [t |-> "null"]
Absent == [t |-> "absent"]          \* a key the dict does not hold
Text(x) == [t |-> "text", x |-> x]  \* a str held as its characters
Bool(b) == [t |-> "bool", b |-> b]
Num(n) == [t |-> "num", n |-> n]    \* an int
Flt(f) == [t |-> "float", f |-> f]  \* a float: Fin, Ratio, Inf, NegInf or NaN
Str(s) == [t |-> "str", s |-> s]
Arr(a) == [t |-> "arr", a |-> a]
Obj(o) == [t |-> "obj", o |-> o]
EmptyDict == <<>>

\* Python truth value of a value (`if not analysis`)
Truthy(v) ==
    CASE v.t = "null" -> FALSE
      [] v.t = "bool" -> v.b
      [] v.t = "num"  -> v.n # 0
      [] v.t = "float" -> v.f.k # "fin" \/ v.f.n # 0
      [] v.t = "str"  -> v.s # ""
      [] v.t = "arr"  -> v.a # <<>>
      [] v.t = "obj"  -> DOMAIN v.o # {}
      [] v.t = "text" -> v.x # <<>>
      [] v.t = "absent" -> FALSE
      [] OTHER        -> TRUE

SetMin(S) == CHOOSE x \in S : \A y \in S : x <= y
SetMax(S) == CHOOSE x \in S : \A y \in S : x >= y

(***************************************************************************)
(* Characters.  A character is a string of length one.  The model holds    *)
(* U+0002 .. U+00FF as themselves, the grave accent excepted; a code point *)
(* outside that range is held under a name that no text equals (Chr).      *)
(***************************************************************************)
Backspace == ""     \* '\b', U+0008
VTab == ""          \* '\v', U+000B
NoBreakSpace == " "  \* U+00A0

\* the characters of a word the inputs of the model use
Chars(w) ==
    CASE w = " fim" ->
            <<" ", "f", "i", "m">>
      [] w = "-1.5e1" ->
            <<"-", "1", ".", "5", "e", "1">>
      [] w = "-Infinity" ->
            <<"-", "I", "n", "f", "i", "n", "i", "t", "y">>
      [] w = "1_0" ->
            <<"1", "_", "0">>
      [] w = "1e3" ->
            <<"1", "e", "3">>
      [] w = "5.5" ->
            <<"5", ".", "5">>
      [] w = "Curso" ->
            <<"C", "u", "r", "s", "o">>
      [] w = "Fitness" ->
            <<"F", "i", "t", "n", "e", "s", "s">>
      [] w = "Infinity" ->
            <<"I", "n", "f", "i", "n", "i", "t", "y">>
      [] w = "NaN" ->
            <<"N", "a", "N">>
      [] w = "Produto Digital" ->
            <<"P", "r", "o", "d", "u", "t", "o", " ", "D", "i", "g", "i", "t", "a", "l">>
      [] w = "Segue " ->
            <<"S", "e", "g", "u", "e", " ">>
      [] w = "avatar" ->
            <<"a", "v", "a", "t", "a", "r">>
      [] w = "concorrencia" ->
            <<"c", "o", "n", "c", "o", "r", "r", "e", "n", "c", "i", "a">>
      [] w = "dores_desejos" ->
            <<"d", "o", "r", "e", "s", "_", "d", "e", "s", "e", "j", "o", "s">>
      [] w = "escopo" ->
            <<"e", "s", "c", "o", "p", "o">>
      [] w = "false" ->
            <<"f", "a", "l", "s", "e">>
      [] w = "inf" ->
            <<"i", "n", "f">>
      [] w = "infinity" ->
            <<"i", "n", "f", "i", "n", "i", "t", "y">>
      [] w = "insights_pesquisa" ->
            <<"i", "n", "s", "i", "g", "h", "t", "s", "_", "p", "e", "s", "q", "u", "i", "s", "a">>
      [] w = "mercado" ->
            <<"m", "e", "r", "c", "a", "d", "o">>
      [] w = "metricas" ->
            <<"m", "e", "t", "r", "i", "c", "a", "s">>
      [] w = "nan" ->
            <<"n", "a", "n">>
      [] w = "not json at all" ->
            <<"n", "o", "t", " ", "j", "s", "o", "n", " ", "a", "t", " ", "a", "l", "l">>
      [] w = "null" ->
            <<"n", "u", "l", "l">>
      [] w = "palavras_chave" ->
            <<"p", "a", "l", "a", "v", "r", "a", "s", "_", "c", "h", "a", "v", "e">>
      [] w = "plano_acao" ->
            <<"p", "l", "a", "n", "o", "_", "a", "c", "a", "o">>
      [] w = "projecoes" ->
            <<"p", "r", "o", "j", "e", "c", "o", "e", "s">>
      [] w = "research_metadata" ->
            <<"r", "e", "s", "e", "a", "r", "c", "h", "_", "m", "e", "t", "a", "d", "a", "t", "a">>
      [] w = "true" ->
            <<"t", "r", "u", "e">>
      [] w = "voz_mercado" ->
            <<"v", "o", "z", "_", "m", "e", "r", "c", "a", "d", "o">>
      [] OTHER -> <<w>>   \* a word of one character

Digits == {"0", "1", "2", "3", "4", "5", "6", "7", "8", "9"}
DigitVal(c) ==
    CASE c = "0" -> 0 [] c = "1" -> 1 [] c = "2" -> 2 [] c = "3" -> 3
      [] c = "4" -> 4 [] c = "5" -> 5 [] c = "6" -> 6 [] c = "7" -> 7
      [] c = "8" -> 8 [] c = "9" -> 9

\* the value of a hexadecimal digit, -1 for any other character
HexVal(c) ==
    CASE c \in Digits -> DigitVal(c)
      [] c \in {"a", "A"} -> 10 [] c \in {"b", "B"} -> 11 [] c \in {"c", "C"} -> 12
      [] c \in {"d", "D"} -> 13 [] c \in {"e", "E"} -> 14 [] c \in {"f", "F"} -> 15
      [] OTHER -> -1

\* str.lower() of one character, as far as float() compares letters
LowerChar(c) ==
    CASE c = "A" -> "a" [] c = "F" -> "f" [] c = "I" -> "i" [] c = "N" -> "n"
      [] c = "T" -> "t" [] c = "Y" -> "y"
      [] OTHER -> c

\* chr(32) .. chr(95)
Printable ==
    << " ", "!", "\"", "#", "$", "%", "&", "'", "(", ")", "*", "+",
       ",", "-", ".", "/", "0", "1", "2", "3", "4", "5", "6", "7",
       "8", "9", ":", ";", "<", "=", ">", "?", "@", "A", "B", "C",
       "D", "E", "F", "G", "H", "I", "J", "K", "L", "M", "N", "O",
       "P", "Q", "R", "S", "T", "U", "V", "W", "X", "Y", "Z", "[",
       "\\", "]", "^", "_" >>

\* chr(97) .. chr(126)
PrintableLower ==
    << "a", "b", "c", "d", "e", "f", "g", "h", "i", "j", "k", "l",
       "m", "n", "o", "p", "q", "r", "s", "t", "u", "v", "w", "x",
       "y", "z", "{", "|", "}", "~" >>

\* chr(161) .. chr(255)
Latin1 ==
    << "¡", "¢", "£", "¤", "¥", "¦", "§", "¨", "©", "ª", "«", "¬",
       "­", "®", "¯", "°", "±", "²", "³", "´", "µ", "¶", "·", "¸",
       "¹", "º", "»", "¼", "½", "¾", "¿", "À", "Á", "Â", "Ã", "Ä",
       "Å", "Æ", "Ç", "È", "É", "Ê", "Ë", "Ì", "Í", "Î", "Ï", "Ð",
       "Ñ", "Ò", "Ó", "Ô", "Õ", "Ö", "×", "Ø", "Ù", "Ú", "Û", "Ü",
       "Ý", "Þ", "ß", "à", "á", "â", "ã", "ä", "å", "æ", "ç", "è",
       "é", "ê", "ë", "ì", "í", "î", "ï", "ð", "ñ", "ò", "ó", "ô",
       "õ", "ö", "÷", "ø", "ù", "ú", "û", "ü", "ý", "þ", "ÿ" >>

\* chr(2) .. chr(31), then chr(127) .. chr(160)
Controls ==
    << "", "", "", "", "", "", "", "\t", "\n", "", "\f", "\r",
       "", "", "", "", "", "", "", "", "", "", "", "",
       "", "", "", "", "", "", "", "", "", "", "", "",
       "", "", "", "", "", "", "", "", "", "", "", "",
       "", "", "", "", "", "", "", "", "", "", "", "",
       "", "", "", " " >>

\* U+0001 opens and closes the name of a code point that is not held as
\* itself; it is one of them, so a name differs from every text made of
\* characters and from every other name
NameMark == ""

\* chr(n)
Chr(n) ==
    IF n >= 2 /\ n <= 31 THEN Controls[n - 1]
    ELSE IF n >= 32 /\ n <= 95 THEN Printable[n - 31]
    ELSE IF n >= 97 /\ n <= 126 THEN PrintableLower[n - 96]
    ELSE IF n >= 127 /\ n <= 160 THEN Controls[n - 96]
    ELSE IF n >= 161 /\ n <= 255 THEN Latin1[n - 160]
    ELSE NameMark \o "U+" \o ToString(n) \o NameMark

(***************************************************************************)
(* str methods used by the extractor.  Indices are Python's (0-based, -1   *)
(* for "not found"); Slice(s, a, b) is s[a:b].                             *)
(***************************************************************************)
\* str.isspace(): the characters str.strip() removes
IsWs(c) == c \in {" ", "\t", "\n", "\r", "\f", VTab, NoBreakSpace,
                 Chr(28), Chr(29), Chr(30), Chr(31), Chr(133)}

\* the characters float() skips around the number: ASCII whitespace and the
\* spaces beyond ASCII, not U+001C .. U+001F
IsFloatWs(c) == c \in {" ", "\t", "\n", "\r", "\f", VTab, NoBreakSpace, Chr(133)}

Strip(s) ==
    LET keep == {i \in 1..Len(s) : ~IsWs(s[i])}
    IN  IF keep = {} THEN <<>> ELSE SubSeq(s, SetMin(keep), SetMax(keep))

Find(s, c) ==
    LET at == {i \in 1..Len(s) : s[i] = c}
    IN  IF at = {} THEN -1 ELSE SetMin(at) - 1

RFind(s, c) ==
    LET at == {i \in 1..Len(s) : s[i] = c}
    IN  IF at = {} THEN -1 ELSE SetMax(at) - 1

Slice(s, a, b) == IF b <= a THEN <<>> ELSE SubSeq(s, a + 1, b)

RECURSIVE Concat(_)
Concat(ws) == IF ws = <<>> THEN "" ELSE Head(ws) \o Concat(Tail(ws))

\* s[i:i+len(lit)] == lit, for a position i (1-based)
LiteralAt(s, i, lit) ==
    i + Len(lit) - 1 <= Len(s) /\ SubSeq(s, i, i + Len(lit) - 1) = lit

(***************************************************************************)
(* float(x) and int(f).  A float is inf, -inf, nan or finite; a finite     *)
(* float is held as the exact decimal n / d, d a power of ten, in lowest   *)
(* terms of ten (-0.0 is held as 0.0, which it equals).  The numbers of    *)
(* the model keep n, d and every product below 2^31, where the decimal and *)
(* the double agree on every amount computed here.                         *)
(***************************************************************************)
Fin(n) == [k |-> "fin", n |-> n, d |-> 1]
Ratio(n, d) == [k |-> "fin", n |-> n, d |-> d]
Inf == [k |-> "inf", neg |-> FALSE]
NegInf == [k |-> "inf", neg |-> TRUE]
NaN == [k |-> "nan"]
Raised(e) == [ok |-> FALSE, exc |-> e]
Val(v) == [ok |-> TRUE, val |-> v]

RECURSIVE DigitsValue(_, _)
DigitsValue(x, n) ==
    IF x = <<>> THEN n ELSE DigitsValue(Tail(x), 10 * n + DigitVal(Head(x)))

RECURSIVE Pow10(_)
Pow10(e) == IF e = 0 THEN 1 ELSE 10 * Pow10(e - 1)

RECURSIVE DropZeros(_)
DropZeros(ds) == IF ds # <<>> /\ Head(ds) = "0" THEN DropZeros(Tail(ds)) ELSE ds

\* m * 10^e with e < 0, in lowest terms of ten
RECURSIVE Reduce(_, _)
Reduce(m, e) ==
    IF e < 0 /\ m % 10 = 0 THEN Reduce(m \div 10, e + 1)
    ELSE IF e >= 0 THEN Fin(m * Pow10(e))
    ELSE Ratio(m, Pow10(0 - e))

\* the double nearest to (-1)^neg * digits * 10^e10: beyond 10^308 (the
\* largest double is 1.8 * 10^308) it is inf, below 10^-324 (the smallest is
\* 5 * 10^-324) it is 0.0
MakeFloat(neg, digits, e10) ==
    LET sig == DropZeros(digits)
        adj == Len(sig) + e10 - 1
    IN  IF sig = <<>> THEN Fin(0)
        ELSE IF adj > 308 THEN (IF neg THEN NegInf ELSE Inf)
        ELSE IF adj < -324 THEN Fin(0)
        ELSE LET m == DigitsValue(sig, 0)
             IN  IF e10 >= 0 THEN Fin((IF neg THEN 0 - m ELSE m) * Pow10(e10))
                 ELSE Reduce(IF neg THEN 0 - m ELSE m, e10)

\* the digits from s[i] on: digit+ ('_' digit+)* when underscores are
\* allowed (float), digit+ when not (JSON); no digit at i gives no digits
RECURSIVE DigitPart(_, _, _, _)
DigitPart(s, i, under, acc) ==
    IF i <= Len(s) /\ s[i] \in Digits
    THEN DigitPart(s, i + 1, under, Append(acc, s[i]))
    ELSE IF under /\ acc # <<>> /\ i + 1 <= Len(s) /\ s[i] = "_" /\ s[i + 1] \in Digits
    THEN DigitPart(s, i + 1, under, acc)
    ELSE [pos |-> i, digits |-> acc]

NoDigits(i) == [pos |-> i, digits |-> <<>>]

\* [eE] [+-]? digits at s[i]: the position after it and the exponent, or
\* absent (a lone 'e' or 'e+' is no exponent)
Exponent(s, i, under) ==
    IF i <= Len(s) /\ s[i] \in {"e", "E"}
    THEN LET signed == i + 1 <= Len(s) /\ s[i + 1] \in {"+", "-"}
             ep == DigitPart(s, IF signed THEN i + 2 ELSE i + 1, under, <<>>)
             e == DigitsValue(ep.digits, 0)
         IN  IF ep.digits = <<>> THEN [present |-> FALSE, pos |-> i, e |-> 0]
             ELSE [present |-> TRUE, pos |-> ep.pos,
                   e |-> IF signed /\ s[i + 1] = "-" THEN 0 - e ELSE e]
    ELSE [present |-> FALSE, pos |-> i, e |-> 0]

\* float(str): surrounding whitespace, a sign, then inf / infinity / nan in
\* any letter case or a decimal: digits with an optional fraction (or a
\* fraction alone) and an optional exponent, underscores between digits
PyFloatText(x) ==
    LET keep == {i \in 1..Len(x) : ~IsFloatWs(x[i])}
        c == IF keep = {} THEN <<>> ELSE SubSeq(x, SetMin(keep), SetMax(keep))
        signed == c # <<>> /\ c[1] \in {"+", "-"}
        neg == signed /\ c[1] = "-"
        b == IF signed THEN Tail(c) ELSE c
        word == [i \in 1..Len(b) |-> LowerChar(b[i])]
        ip == DigitPart(b, 1, TRUE, <<>>)
        dot == ip.pos <= Len(b) /\ b[ip.pos] = "."
        fp == IF dot THEN DigitPart(b, ip.pos + 1, TRUE, <<>>) ELSE NoDigits(ip.pos)
        ex == Exponent(b, fp.pos, TRUE)
    IN  IF word \in {Chars("inf"), Chars("infinity")} THEN Val(IF neg THEN NegInf ELSE Inf)
        ELSE IF word = Chars("nan") THEN Val(NaN)
        ELSE IF /\ ip.digits # <<>> \/ fp.digits # <<>>
                /\ ex.pos = Len(b) + 1
        THEN Val(MakeFloat(neg, ip.digits \o fp.digits, ex.e - Len(fp.digits)))
        ELSE Raised("ValueError")

\* float(v): a str is parsed, a number converts, a bool is 1.0 or 0.0,
\* anything else is a TypeError
PyFloat(v) ==
    CASE v.t = "text"  -> PyFloatText(v.x)
      [] v.t = "num"   -> Val(Fin(v.n))
      [] v.t = "float" -> Val(v.f)
      [] v.t = "bool"  -> Val(Fin(IF v.b THEN 1 ELSE 0))
      [] OTHER         -> Raised("TypeError")

IntOfScaledFloor(f, num, den) ==
    CASE f.k = "inf" -> Raised("OverflowError")
      [] f.k = "nan" -> Raised("ValueError")
      [] OTHER -> Val((f.n * num) \div (f.d * den))

\* int(f * num / den): truncation toward zero; int(inf) and int(nan) raise
IntOfScaled(f, num, den) ==
    CASE f.k = "inf" -> Raised("OverflowError")
      [] f.k = "nan" -> Raised("ValueError")
      [] OTHER ->
            LET p == f.n * num
                q == f.d * den
            IN  Val(IF p >= 0 THEN p \div q ELSE 0 - ((0 - p) \div q))

(***************************************************************************)
(* json.loads (json.decoder, json.scanner): objects, arrays, strings with  *)
(* their escapes, numbers, true / false / null, NaN / Infinity /           *)
(* -Infinity; whitespace between tokens; anything after the value is       *)
(* "Extra data".  A result is [ok |-> TRUE, val, pos] (pos: 1-based index  *)
(* after the value) or Fail (json.JSONDecodeError).                        *)
(***************************************************************************)
Fail == [ok |-> FALSE]
Ok(v, p) == [ok |-> TRUE, val |-> v, pos |-> p]

\* WHITESPACE = [ \t\n\r]*
IsJsonWs(c) == c \in {" ", "\t", "\n", "\r"}

SkipWs(s, i) ==
    LET rest == {j \in i..Len(s) : ~IsJsonWs(s[j])}
    IN  IF rest = {} THEN Len(s) + 1 ELSE SetMin(rest)

\* a character below U+0020: an error inside a string (strict mode)
IsControl(c) == c = NameMark \/ \E n \in 2..31 : c = Chr(n)

\* BACKSLASH: the character an escape letter stands for ("": no such escape)
Unescape(c) ==
    CASE c = "\"" -> "\"" [] c = "\\" -> "\\" [] c = "/" -> "/"
      [] c = "b" -> Backspace [] c = "f" -> "\f" [] c = "n" -> "\n"
      [] c = "r" -> "\r" [] c = "t" -> "\t"
      [] OTHER -> ""

\* _decode_uXXXX: s[i] is the 'u'; four hexadecimal digits must follow (-1
\* when they do not)
DecodeU(s, i) ==
    IF i + 4 > Len(s) THEN -1
    ELSE LET h == [j \in 1..4 |-> HexVal(s[i + j])]
         IN  IF \E j \in 1..4 : h[j] = -1 THEN -1
             ELSE ((h[1] * 16 + h[2]) * 16 + h[3]) * 16 + h[4]

\* scanstring from s[i] on, acc the characters decoded so far
RECURSIVE ScanChars(_, _, _)
ScanChars(s, i, acc) ==
    IF i > Len(s) THEN Fail
    ELSE IF s[i] = "\"" THEN Ok(Str(acc), i + 1)
    ELSE IF s[i] # "\\"
    THEN IF IsControl(s[i]) THEN Fail ELSE ScanChars(s, i + 1, acc \o s[i])
    ELSE IF i + 1 > Len(s) THEN Fail
    ELSE IF s[i + 1] # "u"
    THEN IF Unescape(s[i + 1]) = "" THEN Fail
         ELSE ScanChars(s, i + 2, acc \o Unescape(s[i + 1]))
    ELSE LET uni == DecodeU(s, i + 1)
             paired == /\ uni >= 55296 /\ uni <= 56319
                       /\ LiteralAt(s, i + 6, <<"\\", "u">>)
             uni2 == IF paired THEN DecodeU(s, i + 7) ELSE 0
         IN  IF uni = -1 \/ uni2 = -1 THEN Fail
             ELSE IF paired /\ uni2 >= 56320 /\ uni2 <= 57343
             THEN ScanChars(s, i + 12,
                            acc \o Chr(65536 + (uni - 55296) * 1024 + (uni2 - 56320)))
             ELSE ScanChars(s, i + 6, acc \o Chr(uni))

\* s[i] is the opening quote
ScanString(s, i) == ScanChars(s, i + 1, "")

\* NUMBER_RE = (-?(?:0|[1-9]\d*))(\.\d+)?([eE][-+]?\d+)? at s[i]: an int
\* without fraction and exponent, else a float; Fail when nothing matches
ScanNumber(s, i) ==
    LET neg == i <= Len(s) /\ s[i] = "-"
        j == IF neg THEN i + 1 ELSE i
        ip == IF j <= Len(s) /\ s[j] = "0" THEN [pos |-> j + 1, digits |-> <<"0">>]
              ELSE DigitPart(s, j, FALSE, <<>>)
        dot == ip.pos <= Len(s) /\ s[ip.pos] = "."
        fd == IF dot THEN DigitPart(s, ip.pos + 1, FALSE, <<>>) ELSE NoDigits(ip.pos)
        fp == IF fd.digits = <<>> THEN NoDigits(ip.pos) ELSE fd
        ex == Exponent(s, fp.pos, FALSE)
    IN  IF ip.digits = <<>> THEN Fail
        ELSE IF fp.digits = <<>> /\ ~ex.present
        THEN Ok(Num(IF neg THEN 0 - DigitsValue(ip.digits, 0) ELSE DigitsValue(ip.digits, 0)),
                ip.pos)
        ELSE Ok(Flt(MakeFloat(neg, ip.digits \o fp.digits, ex.e - Len(fp.digits))), ex.pos)

RECURSIVE ScanOnce(_, _), JSONObject(_, _, _), JSONArray(_, _, _)

\* json.scanner.py_make_scanner._scan_once
ScanOnce(s, i) ==
    IF i > Len(s) THEN Fail
    ELSE IF s[i] = "\"" THEN ScanString(s, i)
    ELSE IF s[i] = "{"
    THEN LET j == SkipWs(s, i + 1)
         IN  IF j <= Len(s) /\ s[j] = "}" THEN Ok(Obj(EmptyDict), j + 1)
             ELSE JSONObject(s, j, EmptyDict)
    ELSE IF s[i] = "["
    THEN LET j == SkipWs(s, i + 1)
         IN  IF j <= Len(s) /\ s[j] = "]" THEN Ok(Arr(<<>>), j + 1)
             ELSE JSONArray(s, j, <<>>)
    ELSE IF LiteralAt(s, i, Chars("null")) THEN Ok(None, i + 4)
    ELSE IF LiteralAt(s, i, Chars("true")) THEN Ok(Bool(TRUE), i + 4)
    ELSE IF LiteralAt(s, i, Chars("false")) THEN Ok(Bool(FALSE), i + 5)
    ELSE LET OrConstant(number) ==
                 IF number.ok THEN number
                 ELSE IF LiteralAt(s, i, Chars("NaN")) THEN Ok(Flt(NaN), i + 3)
                 ELSE IF LiteralAt(s, i, Chars("Infinity")) THEN Ok(Flt(Inf), i + 8)
                 ELSE IF LiteralAt(s, i, Chars("-Infinity")) THEN Ok(Flt(NegInf), i + 9)
                 ELSE Fail
         IN  OrConstant(ScanNumber(s, i))

\* json.decoder.JSONObject: i is where the next key's quote must be;
\* a repeated key keeps its last value
JSONObject(s, i, pairs) ==
    IF i > Len(s) \/ s[i] # "\"" THEN Fail
    ELSE LET k == ScanString(s, i)
         IN  IF ~k.ok THEN Fail
             ELSE LET c == SkipWs(s, k.pos)
                  IN  IF c > Len(s) \/ s[c] # ":" THEN Fail
                      ELSE LET v == ScanOnce(s, SkipWs(s, c + 1))
                           IN  IF ~v.ok THEN Fail
                               ELSE LET more == (k.val.s :> v.val) @@ pairs
                                        d == SkipWs(s, v.pos)
                                    IN  IF d > Len(s) THEN Fail
                                        ELSE IF s[d] = "}" THEN Ok(Obj(more), d + 1)
                                        ELSE IF s[d] = "," THEN JSONObject(s, SkipWs(s, d + 1), more)
                                        ELSE Fail

\* json.decoder.JSONArray: i is where the next element starts
JSONArray(s, i, items) ==
    LET v == ScanOnce(s, i)
    IN  IF ~v.ok THEN Fail
        ELSE LET more == Append(items, v.val)
                 d == SkipWs(s, v.pos)
             IN  IF d > Len(s) THEN Fail
                 ELSE IF s[d] = "]" THEN Ok(Arr(more), d + 1)
                 ELSE IF s[d] = "," THEN JSONArray(s, SkipWs(s, d + 1), more)
                 ELSE Fail

\* json.loads: the whole text must be one value between optional whitespace
JsonLoads(s) ==
    LET Whole(r) ==
            IF ~r.ok THEN Fail
            ELSE IF SkipWs(s, r.pos) # Len(s) + 1 THEN Fail
            ELSE r
    IN  Whole(ScanOnce(s, SkipWs(s, 1)))

(***************************************************************************)
(* DeepSeekClient._extract_and_validate_json                               *)
(***************************************************************************)
ExtractSpanExclusive(text) ==
    LET c == Strip(text)
        start_idx == Find(c, "{")
        end_idx == RFind(c, "}")
        Parsed(r) == IF r.ok THEN r.val ELSE None
    IN  IF start_idx # -1 /\ end_idx # -1
        THEN Parsed(JsonLoads(Slice(c, start_idx, end_idx)))
        ELSE Parsed(JsonLoads(c))

ExtractAndValidateJson(text) ==
    LET c == Strip(text)
        start_idx == Find(c, "{")
        end_idx == RFind(c, "}")
        \* json.loads raises JSONDecodeError: the handler returns None
        Parsed(r) == IF r.ok THEN r.val ELSE None
    IN  IF start_idx # -1 /\ end_idx # -1
        THEN \* a span that does not parse is not followed by a second attempt
             Parsed(JsonLoads(Slice(c, start_idx, end_idx + 1)))
        ELSE Parsed(JsonLoads(c))

\* f"{n:,}".replace(',', '.'): groups of three digits separated by '.'
Pad3(n) == IF n < 10 THEN "00" \o ToString(n)
           ELSE IF n < 100 THEN "0" \o ToString(n) ELSE ToString(n)

RECURSIVE Thousands(_)
Thousands(n) ==
    IF n < 0 THEN "-" \o Thousands(0 - n)
    ELSE IF n < 1000 THEN ToString(n)
    ELSE Thousands(n \div 1000) \o "." \o Pad3(n % 1000)

Money(n) == "R$ " \o Thousands(n)

(***************************************************************************)
(* DeepSeekClient._create_fallback_analysis.  Each top-level value keeps   *)
(* the fields computed from the request; the fixed illustrative text of a  *)
(* section is the constant Static(section).  The wall-clock                *)
(* search_timestamp is left out.                                           *)
(***************************************************************************)
Get(d, k, default) == IF d[k] = Absent THEN default ELSE d[k]
GetNone(d, k) == Get(d, k, None)

\* f"{v}" of a str
Fmt(v) == Concat(v.x)

Static(section) == [static |-> section]

DefaultPreco == 997
DefaultObjetivoReceita == 100000
DefaultOrcamentoMarketing == 50000

\* float(data.get(k, 0)) if data.get(k) else default, ValueError and
\* TypeError giving the default
NumericField(d, k, default) ==
    IF Truthy(GetNone(d, k))
    THEN LET OrDefault(f) == IF f.ok THEN f.val ELSE Fin(default)
         IN  OrDefault(PyFloat(Get(d, k, Num(0))))
    ELSE Fin(default)

FallbackMetadata ==
    [sources_consulted |-> 0, competitors_analyzed |-> 0, data_quality |-> "fallback"]

FallbackInsights ==
    [dados_mercado |-> "Análise baseada em dados de mercado consolidados e benchmarks da indústria",
     concorrentes_encontrados |-> "Principais players identificados através de análise competitiva",
     tendencias_identificadas |-> "Tendências emergentes no mercado brasileiro",
     oportunidades_unicas |-> "Gaps de mercado identificados para diferenciação estratégica"]

\* Val(document) or Raised(exception)
CreateFallbackAnalysis(d) ==
    LET \* the dict display is evaluated top to bottom: the first int() that
        \* fails is the exception raised
        Document(nicho, produto, ltv, cac, conservador, realista, otimista) ==
            IF ~ltv.ok THEN Raised(ltv.exc)
            ELSE IF ~cac.ok THEN Raised(cac.exc)
            ELSE IF ~conservador.ok THEN Raised(conservador.exc)
            ELSE Val(Obj(
              [escopo |-> [nicho_principal |-> nicho,
                           subnichos |-> <<nicho \o " para iniciantes", nicho \o " avançado",
                                           nicho \o " empresarial">>,
                           produto_ideal |-> produto,
                           proposta_valor |-> "A metodologia mais completa e prática para dominar "
                                              \o nicho \o " no mercado brasileiro"],
               avatar |-> Static("avatar"),
               dores_desejos |-> [descricao |-> "Dificuldade para se posicionar como autoridade em "
                                                \o nicho],
               concorrencia |-> [nome |-> "Academia Premium " \o nicho, preco |-> Money(ltv.val)],
               mercado |-> Static("mercado"),
               palavras_chave |-> [termo |-> "curso " \o nicho],
               metricas |-> [cac_medio |-> Money(cac.val), ltv_medio |-> Money(ltv.val)],
               voz_mercado |-> Static("voz_mercado"),
               projecoes |-> [conservador |-> Money(conservador.val),
                              realista |-> Money(realista.val),
                              otimista |-> Money(otimista.val)],
               plano_acao |-> Static("plano_acao"),
               insights_pesquisa |-> FallbackInsights,
               research_metadata |-> FallbackMetadata]))
        Amounts(nicho, produto, preco, objetivo_receita, orcamento_marketing) ==
            Document(nicho, produto,
                     IntOfScaled(preco, 18, 10),
                     IntOfScaled(orcamento_marketing, 1, 100),
                     IntOfScaled(objetivo_receita, 6, 10),
                     IntOfScaled(objetivo_receita, 1, 1),
                     IntOfScaled(objetivo_receita, 15, 10))
    IN  Amounts(Fmt(Get(d, "nicho", Text(Chars("Produto Digital")))),
                Fmt(Get(d, "produto", Text(Chars("Produto Digital")))),
                NumericField(d, "preco", DefaultPreco),
                NumericField(d, "objetivoReceita", DefaultObjetivoReceita),
                NumericField(d, "orcamentoMarketing", DefaultOrcamentoMarketing))

(***************************************************************************)
(* DeepSeekClient._enrich_analysis.  Item assignment on a value that is no *)
(* dict raises TypeError, which the method catches: it returns the value   *)
(* unchanged.                                                              *)
(***************************************************************************)
RECURSIVE JoinNames(_)
JoinNames(cs) ==
    IF cs = <<>> THEN ""
    ELSE IF Len(cs) = 1 THEN cs[1].name
    ELSE cs[1].name \o ", " \o JoinNames(Tail(cs))

ResearchMetadata(r) ==
    [sources_consulted |-> Cardinality(DOMAIN r.market_data),
     competitors_analyzed |-> Len(r.competitor_data),
     data_quality |-> IF DOMAIN r.market_data # {} THEN "high" ELSE "limited"]

SynthInsights(r) ==
    [dados_mercado |-> "Análise baseada em pesquisa de mercado atualizada",
     concorrentes_encontrados |-> JoinNames(r.competitor_data),
     tendencias_identificadas |-> "Tendências identificadas através de pesquisa online",
     oportunidades_unicas |-> "Oportunidades baseadas em gaps identificados na pesquisa"]

EnrichOverwritingInsights(a, r) ==
    IF a.t # "obj" THEN a
    ELSE Obj(("research_metadata" :> ResearchMetadata(r))
             @@ ("insights_pesquisa" :> SynthInsights(r)) @@ a.o)

EnrichFreshDocument(a, r) ==
    IF a.t # "obj" THEN a
    ELSE Obj(("research_metadata" :> ResearchMetadata(r))
             @@ ("insights_pesquisa" :>
                    IF "insights_pesquisa" \in DOMAIN a.o THEN a.o["insights_pesquisa"]
                    ELSE SynthInsights(r)))

EnrichAnalysis(a, r) ==
    IF a.t # "obj" THEN a
    ELSE LET withMeta == ("research_metadata" :> ResearchMetadata(r)) @@ a.o
         IN  IF "insights_pesquisa" \in DOMAIN withMeta THEN Obj(withMeta)
             ELSE Obj(("insights_pesquisa" :> SynthInsights(r)) @@ withMeta)

(***************************************************************************)
(* WebSearcher.  The page the search endpoint serves for a query is the    *)
(* environment's choice: the request fails (session.get or                 *)
(* raise_for_status raises) or the page holds some result blocks; Hit(q,r) *)
(* is the title / url / snippet of block r of the page for q.              *)
(***************************************************************************)
NumResults == 3         \* search_google(query, 3)
MaxCompetitors == 3     \* competitor_list[:3]
MaxWorkers == 3         \* ThreadPoolExecutor(max_workers=3)

Categories == <<"market_size", "trends", "competitors", "pricing", "demographics">>

MarketQueries(nicho) ==
    << "mercado " \o nicho \o " Brasil 2024 tamanho",
       nicho \o " tendências mercado brasileiro",
       "concorrentes " \o nicho \o " Brasil principais",
       "preços " \o nicho \o " cursos online Brasil",
       nicho \o " público alvo perfil demográfico" >>

CompetitorQuery(name, nicho) == name \o " " \o nicho \o " preço curso online"

Hit(q, r) == [query |-> q, rank |-> r]

\* (a page without result blocks gives the same empty list as a failed request)
Outcomes == {[st |-> "error", hits |-> 0]} \cup {[st |-> "ok", hits |-> h] : h \in 1..MaxHits}

\* xs[:n]: the first n items, all of them when there are fewer; a negative
\* n counts from the end (all but the last -n items)
FirstN(xs, n) ==
    IF n >= 0 THEN SubSeq(xs, 1, IF n <= Len(xs) THEN n ELSE Len(xs))
    ELSE IF Len(xs) + n <= 0 THEN <<>>
    ELSE SubSeq(xs, 1, Len(xs) + n)

\* the page of an outcome of the pipeline: every block is a result
PageOf(out) == [st |-> out.st, blocks |-> [i \in 1..out.hits |-> "result"]]

\* results.append(...) for the blocks that hold an h3 and an a (line 49-58),
\* in page order
ResultsOf(q, blocks) ==
    LET at == SelectSeq([i \in 1..Len(blocks) |-> i], LAMBDA i : blocks[i] = "result")
    IN  [j \in 1..Len(at) |-> Hit(q, at[j])]

SearchPageUncapped(q, num_results, page) ==
    IF page.st # "ok" THEN Val(<<>>) ELSE Val(ResultsOf(q, page.blocks))

\* search_google on a page: [] when session.get, raise_for_status or the
\* parser raises (line 65-67), else the results among the blocks of the
\* slice search_results[:num_results] (line 40)
SearchPage(q, num_results, page) ==
    IF page.st # "ok" THEN Val(<<>>)
    ELSE Val(ResultsOf(q, FirstN(page.blocks, num_results)))

\* search_google: [] on any exception, else the first num_results blocks
SearchGoogleRaising(q, num_results, out) ==
    IF out.st = "error" THEN Raised("RequestException")
    ELSE Val(FirstN([r \in 1..out.hits |-> Hit(q, r)], num_results))

SearchGoogle(q, num_results, out) == SearchPage(q, num_results, PageOf(out))

\* market_data as search_market_data builds it before the loop
EmptyMarketData == [c \in {Categories[i] : i \in 1..Len(Categories)} |-> <<>>]

\* key = list(market_data.keys())[i]; market_data[key] = results
StoreCategory(md, i, results) == [md EXCEPT ![Categories[i]] = results]

(***************************************************************************)
(* _conduct_market_research: the competitor list                           *)
(***************************************************************************)
RECURSIVE Split(_, _)
Split(x, sep) ==
    LET at == {i \in 1..Len(x) : x[i] = sep}
    IN  IF at = {} THEN <<x>>
        ELSE <<SubSeq(x, 1, SetMin(at) - 1)>>
             \o Split(SubSeq(x, SetMin(at) + 1, Len(x)), sep)

RECURSIVE StripAll(_)
StripAll(segs) ==
    IF segs = <<>> THEN <<>> ELSE <<Strip(Head(segs))>> \o StripAll(Tail(segs))

NamesOf(concorrentes) ==
    SelectSeq(StripAll(Split(concorrentes.x, ",")), LAMBDA c : c # <<>>)

\* the names get_competitor_info is submitted for
CompetitorListUncapped(concorrentes) ==
    IF ~Truthy(concorrentes) THEN <<>> ELSE NamesOf(concorrentes)

CompetitorList(concorrentes) ==
    IF ~Truthy(concorrentes) THEN <<>>
    ELSE FirstN(NamesOf(concorrentes), MaxCompetitors)

(***************************************************************************)
(* _process_research_data: the digest of the research rendered into the    *)
(* prompt.  `insights` is a list of items; the digest is their join with   *)
(* "\n".  The digest is held as its pieces: "\n" is a piece of its own, so  *)
(* the lines of the digest are its segments between "\n" pieces.           *)
(***************************************************************************)
DigestResultsPerCategory == 2   \* results[:2]
DigestSnippetsPerCompetitor == 1    \* competitor.get('search_results', [])[:1]

NoDataText == <<"Nenhum dado de pesquisa disponível.">>
LimitedDataText == <<"Dados de pesquisa limitados disponíveis.">>

\* result.get('title', ''), result.get('snippet', '') of a search result
HitTitle(h) == "title " \o ToString(h.rank) \o " of " \o h.query
HitSnippet(h) == "snippet " \o ToString(h.rank) \o " of " \o h.query

\* category.upper()
Upper(category) ==
    CASE category = "market_size" -> "MARKET_SIZE"
      [] category = "trends" -> "TRENDS"
      [] category = "competitors" -> "COMPETITORS"
      [] category = "pricing" -> "PRICING"
      [] category = "demographics" -> "DEMOGRAPHICS"

\* f"- {title}: {snippet}" for the first DigestResultsPerCategory results
RECURSIVE ResultItems(_)
ResultItems(results) ==
    IF results = <<>> THEN <<>>
    ELSE << <<"- ", HitTitle(Head(results)), ": ", HitSnippet(Head(results))>> >>
         \o ResultItems(Tail(results))

RECURSIVE MarketItemsUncapped(_, _)
MarketItemsUncapped(md, i) ==
    IF i > Len(Categories) THEN <<>>
    ELSE (IF Categories[i] \in DOMAIN md /\ md[Categories[i]] # <<>>
          THEN << <<"\n", Upper(Categories[i]), ":">> >> \o ResultItems(md[Categories[i]])
          ELSE <<>>)
         \o MarketItemsUncapped(md, i + 1)

\* line 497-501: the categories in the order of the dict, those with results
RECURSIVE MarketItems(_, _)
MarketItems(md, i) ==
    IF i > Len(Categories) THEN <<>>
    ELSE (IF Categories[i] \in DOMAIN md /\ md[Categories[i]] # <<>>
          THEN << <<"\n", Upper(Categories[i]), ":">> >>
               \o ResultItems(FirstN(md[Categories[i]], DigestResultsPerCategory))
          ELSE <<>>)
         \o MarketItems(md, i + 1)

RECURSIVE SnippetItems(_)
SnippetItems(results) ==
    IF results = <<>> THEN <<>>
    ELSE << <<"  * ", HitSnippet(Head(results))>> >> \o SnippetItems(Tail(results))

\* line 506-510: one name item per competitor, then its first snippet
RECURSIVE CompetitorItems(_)
CompetitorItems(cs) ==
    IF cs = <<>> THEN <<>>
    ELSE << <<"- ", Head(cs).name>> >>
         \o SnippetItems(FirstN(Head(cs).search_results, DigestSnippetsPerCompetitor))
         \o CompetitorItems(Tail(cs))

\* '\n'.join(insights)
RECURSIVE JoinLines(_)
JoinLines(items) ==
    IF items = <<>> THEN <<>>
    ELSE IF Len(items) = 1 THEN items[1]
    ELSE items[1] \o <<"\n">> \o JoinLines(Tail(items))

ProcessResearchDataMarketOnly(r) ==
    IF \A c \in DOMAIN r.market_data : r.market_data[c] = <<>> THEN NoDataText
    ELSE LET insights ==
                 MarketItems(r.market_data, 1)
                 \o (IF r.competitor_data = <<>> THEN <<>>
                     ELSE << <<"\n", "CONCORRENTES IDENTIFICADOS:">> >>
                          \o CompetitorItems(r.competitor_data))
         IN  IF insights = <<>> THEN LimitedDataText ELSE JoinLines(insights)

\* _process_research_data
ProcessResearchData(r) ==
    IF DOMAIN r.market_data = {} THEN NoDataText
    ELSE LET insights ==
                 MarketItems(r.market_data, 1)
                 \o (IF r.competitor_data = <<>> THEN <<>>
                     ELSE << <<"\n", "CONCORRENTES IDENTIFICADOS:">> >>
                          \o CompetitorItems(r.competitor_data))
         IN  IF insights = <<>> THEN LimitedDataText ELSE JoinLines(insights)

(***************************************************************************)
(* DeepSeekClient.__init__                                                 *)
(***************************************************************************)
StartsWith(x, prefix) ==
    Len(x) >= Len(prefix) /\ SubSeq(x, 1, Len(prefix)) = prefix

KeyPrefix == <<"s", "k", "-">>

\* the key passes both checks of __init__
KeyAccepted(key) == Truthy(key) /\ StartsWith(key.x, KeyPrefix)

(***************************************************************************)
(* The request thread: analyze_avatar_comprehensive and the methods it     *)
(* calls.  pc: start, submit, wait_market, collect, research_failed,       *)
(* prompting, generating, extracting, enriching, done.                     *)
(***************************************************************************)
Running == [kind |-> "running"]
Returned(v) == [kind |-> "returned", value |-> v]
Raises(e) == [kind |-> "raised", exc |-> e]

NoResearch == [market_data |-> EmptyDict, competitor_data |-> <<>>]

Nicho == Fmt(Get(data, "nicho", Text(<<>>)))
Competitors == CompetitorList(Get(data, "concorrentes", Text(<<>>)))

MarketTask(nicho) ==
    [fn |-> "search_market_data", arg |-> nicho, st |-> "queued", i |-> 0,
     acc |-> EmptyMarketData]
CompetitorTask(name) ==
    [fn |-> "get_competitor_info", arg |-> name, st |-> "queued", i |-> 0,
     acc |-> <<>>]

\* line 156-158: no client, the fallback is returned (or its exception
\* propagates); else line 163 enters _conduct_market_research
Start ==
    /\ pc = "start"
    /\ IF ~client
       THEN /\ LET Outcome(f) == IF f.ok THEN Returned(f.val) ELSE Raises(f.exc)
               IN  result' = Outcome(CreateFallbackAnalysis(data))
            /\ pc' = "done"
            /\ UNCHANGED <<research, researchRuns>>
       ELSE /\ pc' = "submit"
            /\ research' = NoResearch
            /\ researchRuns' = researchRuns + 1
            /\ UNCHANGED result
    /\ UNCHANGED <<sg, web, digest, apiKey, client, data, nsub, tasks, calls, llm, content, extracted, analysis,
                   llmCalls>>

\* line 201-202: a truthy concorrentes that is no str has no split
SplitRaises(concorrentes) == Truthy(concorrentes) /\ concorrentes.t # "text"

\* line 197: executor.submit(search_market_data, nicho), then line 200-202
SubmitMarket ==
    /\ pc = "submit"
    /\ tasks = <<>>
    /\ tasks' = <<MarketTask(Nicho)>>
    /\ pc' = IF SplitRaises(Get(data, "concorrentes", Text(<<>>))) THEN "research_failed"
             ELSE IF Competitors = <<>> THEN "wait_market" ELSE "submit"
    /\ UNCHANGED <<sg, web, digest, apiKey, client, data, nsub, calls, research, llm, content, extracted, analysis,
                   result, llmCalls, researchRuns>>

\* line 203-205: one submit per competitor of the list
SubmitCompetitor ==
    /\ pc = "submit"
    /\ tasks # <<>>
    /\ nsub < Len(Competitors)
    /\ tasks' = Append(tasks, CompetitorTask(Concat(Competitors[nsub + 1])))
    /\ nsub' = IF nsub + 1 = Len(Competitors) THEN 0 ELSE nsub + 1
    /\ pc' = IF nsub + 1 = Len(Competitors) THEN "wait_market" ELSE "submit"
    /\ UNCHANGED <<sg, web, digest, apiKey, client, data, calls, research, llm, content, extracted, analysis,
                   result, llmCalls, researchRuns>>

(***************************************************************************)
(* The worker threads of the pool: work items are taken in submission      *)
(* order by at most MaxWorkers threads.                                    *)
(***************************************************************************)
RunningTasks == {t \in 1..Len(tasks) : tasks[t].st = "running"}
InFlight == {c \in DOMAIN calls : calls[c].st = "pending"}

CallsOf(t) == IF tasks[t].fn = "search_market_data" THEN Len(Categories) ELSE 1

QueryOf(t, i) ==
    IF tasks[t].fn = "search_market_data" THEN MarketQueries(tasks[t].arg)[i]
    ELSE CompetitorQuery(tasks[t].arg, Nicho)

TaskStartUnbounded(t) ==
    /\ tasks[t].st = "queued"
    /\ \A u \in 1..(t - 1) : tasks[u].st # "queued"
    /\ tasks' = [tasks EXCEPT ![t].st = "running"]
    /\ UNCHANGED <<sg, web, digest, apiKey, client, data, pc, nsub, calls, research, llm, content, extracted,
                   analysis, result, llmCalls, researchRuns>>

TaskStart(t) ==
    /\ tasks[t].st = "queued"
    /\ \A u \in 1..(t - 1) : tasks[u].st # "queued"
    /\ Cardinality(RunningTasks) < MaxWorkers
    /\ tasks' = [tasks EXCEPT ![t].st = "running"]
    /\ UNCHANGED <<sg, web, digest, apiKey, client, data, pc, nsub, calls, research, llm, content, extracted,
                   analysis, result, llmCalls, researchRuns>>

\* search_google is entered and its request is sent (line 31)
SearchBegin(t) ==
    /\ tasks[t].st = "running"
    /\ <<t, tasks[t].i>> \notin InFlight
    /\ tasks[t].i < CallsOf(t)
    /\ tasks' = [tasks EXCEPT ![t].i = @ + 1]
    /\ calls' = (<<t, tasks[t].i + 1>> :> [query |-> QueryOf(t, tasks[t].i + 1),
                                           st |-> "pending", hits |-> 0]) @@ calls
    /\ UNCHANGED <<sg, web, digest, apiKey, client, data, pc, nsub, research, llm, content, extracted, analysis,
                   result, llmCalls, researchRuns>>

\* search_google returns and the task stores the results.
\* search_market_data (line 89-92, the except of line 96) then sleeps, to go
\* on with its next query or, after the last, to return (TaskReturn);
\* get_competitor_info (line 104-110, the except of line 112) returns
SearchEnd(t, out) ==
    /\ tasks[t].st = "running"
    /\ <<t, tasks[t].i>> \in InFlight
    /\ calls' = [calls EXCEPT ![<<t, tasks[t].i>>] =
                    [query |-> @.query, st |-> out.st, hits |-> out.hits]]
    /\ LET r == SearchGoogle(calls[<<t, tasks[t].i>>].query, NumResults, out)
       IN  tasks' =
             IF ~r.ok
             THEN [tasks EXCEPT ![t].st = "done", ![t].acc = EmptyDict]
             ELSE IF tasks[t].fn = "search_market_data"
             THEN [tasks EXCEPT ![t].acc = StoreCategory(@, tasks[t].i, r.val)]
             ELSE [tasks EXCEPT ![t].acc = [name |-> tasks[t].arg, search_results |-> r.val],
                                ![t].st = "done"]
    /\ UNCHANGED <<sg, web, digest, apiKey, client, data, pc, nsub, research, llm, content, extracted, analysis,
                   result, llmCalls, researchRuns>>

\* line 92-94: the sleep after the last query is over, search_market_data
\* returns market_data and its worker is free
TaskReturn(t) ==
    /\ tasks[t].st = "running"
    /\ tasks[t].fn = "search_market_data"
    /\ tasks[t].i = CallsOf(t)
    /\ <<t, tasks[t].i>> \notin InFlight
    /\ tasks' = [tasks EXCEPT ![t].st = "done"]
    /\ UNCHANGED <<sg, web, digest, apiKey, client, data, pc, nsub, calls, research, llm, content, extracted,
                   analysis, result, llmCalls, researchRuns>>

WaitMarketNoJoin ==
    /\ pc = "wait_market"
    /\ tasks[1].st = "done"
    /\ research' = [research EXCEPT !.market_data = tasks[1].acc]
    /\ pc' = "prompting"
    /\ UNCHANGED <<sg, web, digest, apiKey, client, data, nsub, tasks, calls, llm, content, extracted, analysis,
                   result, llmCalls, researchRuns>>

\* line 208: research_data['market_data'] = future_market.result()
WaitMarket ==
    /\ pc = "wait_market"
    /\ tasks[1].st = "done"
    /\ research' = [research EXCEPT !.market_data = tasks[1].acc]
    /\ pc' = IF Len(tasks) = 1 THEN "prompting" ELSE "collect"
    /\ UNCHANGED <<sg, web, digest, apiKey, client, data, nsub, tasks, calls, llm, content, extracted, analysis,
                   result, llmCalls, researchRuns>>

\* line 210-214: the competitor futures in submission order; an empty
\* competitor_info is dropped.  Leaving the `with` block joins the pool.
CollectCompetitor ==
    /\ pc = "collect"
    /\ tasks[nsub + 2].st = "done"
    /\ research' = IF tasks[nsub + 2].acc = EmptyDict THEN research
                   ELSE [research EXCEPT !.competitor_data = Append(@, tasks[nsub + 2].acc)]
    /\ nsub' = nsub + 1
    /\ pc' = IF nsub + 2 = Len(tasks) THEN "prompting" ELSE "collect"
    /\ UNCHANGED <<sg, web, digest, apiKey, client, data, tasks, calls, llm, content, extracted, analysis, result,
                   llmCalls, researchRuns>>

ResearchAbortsRequest ==
    /\ pc = "research_failed"
    /\ \A t \in 1..Len(tasks) : tasks[t].st = "done"
    /\ LET f == CreateFallbackAnalysis(data)
       IN  result' = IF f.ok THEN Returned(f.val) ELSE Raises(f.exc)
    /\ pc' = "done"
    /\ UNCHANGED <<sg, web, digest, apiKey, client, data, nsub, tasks, calls, research, llm, content,
                   extracted, analysis, llmCalls, researchRuns>>

\* an exception inside the `with` block of _conduct_market_research: leaving
\* the block joins the pool, the handler of line 218 logs, and line 221
\* returns research_data as it stands
ResearchAborted ==
    /\ pc = "research_failed"
    /\ \A t \in 1..Len(tasks) : tasks[t].st = "done"
    /\ pc' = "prompting"
    /\ UNCHANGED <<sg, web, digest, apiKey, client, data, nsub, tasks, calls, research, llm, content,
                   extracted, analysis, result, llmCalls, researchRuns>>

\* line 228: _create_enhanced_analysis_prompt
ComposePrompt ==
    /\ pc = "prompting"
    /\ digest' = Text(ProcessResearchData(research))
    /\ pc' = "generating"
    /\ UNCHANGED <<sg, web, apiKey, client, data, nsub, tasks, calls, research, llm, content, extracted,
                   analysis, result, llmCalls, researchRuns>>

\* _create_fallback_analysis called at line 257 or 263: its document becomes
\* `analysis`; its exception is caught at line 261 (when raised at line 257)
\* and at line 176, whose handlers call it again, so it leaves
\* analyze_avatar_comprehensive
FallbackInGenerate ==
    LET Built(f) ==
            IF f.ok
            THEN analysis' = f.val /\ pc' = "enriching" /\ UNCHANGED result
            ELSE result' = Raises(f.exc) /\ pc' = "done" /\ UNCHANGED analysis
    IN  Built(CreateFallbackAnalysis(data))

\* line 231: chat.completions.create raises
LLMCallRetried ==
    /\ pc = "generating"
    /\ llmCalls < 3
    /\ llmCalls' = llmCalls + 1
    /\ llm' = "raised"
    /\ UNCHANGED <<sg, web, digest, apiKey, client, data, pc, nsub, tasks, calls, research, content, extracted,
                   analysis, result, researchRuns>>

LLMCallRaises ==
    /\ pc = "generating"
    /\ llmCalls' = llmCalls + 1
    /\ llm' = "raised"
    /\ FallbackInGenerate
    /\ UNCHANGED <<sg, web, digest, apiKey, client, data, nsub, tasks, calls, research, content, extracted,
                   researchRuns>>

\* line 231-249: chat.completions.create returns; message.content is a text
\* or None
LLMCallReturns(c) ==
    /\ pc = "generating"
    /\ llmCalls' = llmCalls + 1
    /\ llm' = "returned"
    /\ content' = c
    /\ pc' = "extracting"
    /\ UNCHANGED <<sg, web, digest, apiKey, client, data, nsub, tasks, calls, research, extracted,
                   analysis, result, researchRuns>>

\* line 250-259: len(None) raises TypeError (caught at line 261); an
\* extraction that is falsy gives the fallback
ExtractStep ==
    /\ pc = "extracting"
    /\ IF content = None THEN FallbackInGenerate /\ UNCHANGED extracted
       ELSE LET Extracted(a) ==
                    /\ extracted' = a
                    /\ IF ~Truthy(a) THEN FallbackInGenerate
                       ELSE analysis' = a /\ pc' = "enriching" /\ UNCHANGED result
            IN  Extracted(ExtractAndValidateJson(content.x))
    /\ UNCHANGED <<sg, web, digest, apiKey, client, data, nsub, tasks, calls, research, llm, content,
                   llmCalls, researchRuns>>

\* line 171-174: _enrich_analysis writes into the dict it is given and
\* returns that same dict, so `analysis` is the document returned (a value
\* that is no dict is left as it is)
EnrichStep ==
    /\ pc = "enriching"
    /\ LET InPlace(enriched) == analysis' = enriched /\ result' = Returned(enriched)
       IN  InPlace(EnrichAnalysis(analysis, research))
    /\ pc' = "done"
    /\ UNCHANGED <<sg, web, digest, apiKey, client, data, nsub, tasks, calls, research, llm, content, extracted,
                   llmCalls, researchRuns>>

(***************************************************************************)
(* Requests, keys and model replies the checks run over.                   *)
(***************************************************************************)
RequiredKeySeq ==
    <<"escopo", "avatar", "dores_desejos", "concorrencia", "mercado", "palavras_chave",
      "metricas", "voz_mercado", "projecoes", "plano_acao", "insights_pesquisa">>
RequiredKeys == {RequiredKeySeq[i] : i \in 1..Len(RequiredKeySeq)}

\* the text {"k1":1,"k2":1,...}
RECURSIVE MembersText(_)
MembersText(ks) ==
    IF ks = <<>> THEN <<>>
    ELSE <<"\"">> \o Chars(Head(ks)) \o <<"\"", ":", "1">>
         \o (IF Len(ks) = 1 THEN <<>> ELSE <<",">>) \o MembersText(Tail(ks))
ObjectText(ks) == <<"{">> \o MembersText(ks) \o <<"}">>

ApiKeys ==
    {None, Text(<<>>), Text(<<"s", "k", "-", "1">>), Text(<<"p", "k", "-", "1">>),
     Text(<<"s", "k">>)}

Blank == Text(<<>>)

\* preco, objetivoReceita, orcamentoMarketing
NumericInputs ==
    { <<Blank, Blank, Blank>>,
      <<Text(<<"5", "0", "0">>), Blank, Num(0)>>,
      <<Text(Chars("inf")), Blank, Blank>>,
      <<Blank, Text(Chars("nan")), Text(<<"a">>)>> }

ConcorrentesInputs ==
    { Blank,
      Text(<<"A">>),
      Text(<<"A", ",", "\n", " ", "B">>),
      Text(<<",", "\t">>),
      Text(<<"A", ",", ",", " ", ",", "B", " ", "C", ",", "D", ",", "E">>),
      Text(<<" ", "A", ",", "B", "\r", ",", "C", ",", "D">>) }

Request(n, c) ==
    [nicho |-> Text(Chars("Fitness")), produto |-> Text(Chars("Curso")),
     preco |-> n[1], objetivoReceita |-> n[2], orcamentoMarketing |-> n[3],
     concorrentes |-> c]

Requests ==
    {Request(n, c) : n \in NumericInputs, c \in {Blank, Text(<<"A">>), Arr(<<Num(1)>>)}}

ResearchRequests == {Request(<<Blank, Blank, Blank>>, c) : c \in ConcorrentesInputs}

ModelReplies ==
    { None,
      Text(ObjectText(RequiredKeySeq)),
      Text(Chars("Segue ") \o ObjectText(<<"a">>) \o Chars(" fim")),
      Text(Chars("not json at all")),
      Text(<<"{", "}">>),
      Text(<<"[", "1", "]">>) }

Idle ==
    /\ pc = "start"
    /\ nsub = 0
    /\ tasks = <<>>
    /\ calls = <<>>
    /\ research = NoResearch
    /\ llm = "idle"
    /\ content = None
    /\ extracted = None
    /\ analysis = None
    /\ result = Running
    /\ llmCalls = 0
    /\ researchRuns = 0
    /\ digest = None

\* no search_google call is followed on its own
NoSearchCall == [st |-> "none"]

\* the core is called directly, not through the route
NoRoute ==
    /\ sg = NoSearchCall
    /\ reqBody = None
    /\ supabase = FALSE
    /\ rpc = "none"
    /\ analysisId = None
    /\ response = None
    /\ floats = None
    /\ storeLog = <<>>

\* the client after __init__ (OpenAI() raising leaves it None) and a request
Init ==
    /\ apiKey \in ApiKeys
    /\ \E ctorOk \in BOOLEAN : client = (KeyAccepted(apiKey) /\ ctorOk)
    /\ data \in Requests
    /\ Idle
    /\ NoRoute

Next ==
    \/ Start
    \/ SubmitMarket
    \/ SubmitCompetitor
    \/ \E t \in 1..Len(tasks) : TaskStart(t)
    \/ \E t \in 1..Len(tasks) : SearchBegin(t)
    \/ \E t \in 1..Len(tasks), out \in Outcomes : SearchEnd(t, out)
    \/ \E t \in 1..Len(tasks) : TaskReturn(t)
    \/ WaitMarket
    \/ CollectCompetitor
    \/ ResearchAborted
    \/ ComposePrompt
    \/ LLMCallRaises
    \/ \E c \in ModelReplies : LLMCallReturns(c)
    \/ ExtractStep
    \/ EnrichStep

Spec == Init /\ [][Next]_vars

(***************************************************************************)
(* The research batch alone, over more competitor lists.                   *)
(***************************************************************************)
InitResearch ==
    /\ apiKey = Text(<<"s", "k", "-", "1">>)
    /\ client = TRUE
    /\ data \in ResearchRequests
    /\ Idle
    /\ NoRoute

NextResearch ==
    \/ Start
    \/ SubmitMarket
    \/ SubmitCompetitor
    \/ \E t \in 1..Len(tasks) : TaskStart(t)
    \/ \E t \in 1..Len(tasks) : SearchBegin(t)
    \/ \E t \in 1..Len(tasks), out \in Outcomes : SearchEnd(t, out)
    \/ \E t \in 1..Len(tasks) : TaskReturn(t)
    \/ WaitMarket
    \/ CollectCompetitor

SpecResearch == InitResearch /\ [][NextResearch]_vars

(***************************************************************************)
(* The extractor alone, over many reply texts: the request is at line 249  *)
(* (research done with every search failed, the model has replied).        *)
(***************************************************************************)
\* str(n) of an int
RECURSIVE NatText(_)
NatText(n) ==
    IF n < 10 THEN <<Printable[n + 17]>> ELSE NatText(n \div 10) \o <<Printable[(n % 10) + 17]>>
IntText(n) == IF n < 0 THEN <<"-">> \o NatText(0 - n) ELSE NatText(n)

\* json.dumps(v, separators=(',', ':')) of a value whose strings need no
\* escape: ints, strings, arrays, objects
RECURSIVE Dumps(_), DumpsMembers(_), DumpsItems(_)
Dumps(v) ==
    CASE v.t = "num" -> IntText(v.n)
      [] v.t = "str" -> <<"\"">> \o Chars(v.s) \o <<"\"">>
      [] v.t = "arr" -> <<"[">> \o DumpsItems(v.a) \o <<"]">>
      [] v.t = "obj" -> <<"{">> \o DumpsMembers(v.o) \o <<"}">>
DumpsMembers(o) ==
    IF DOMAIN o = {} THEN <<>>
    ELSE LET k == CHOOSE x \in DOMAIN o : TRUE
             rest == [x \in DOMAIN o \ {k} |-> o[x]]
         IN  <<"\"">> \o Chars(k) \o <<"\"", ":">> \o Dumps(o[k])
             \o (IF DOMAIN rest = {} THEN <<>> ELSE <<",">> \o DumpsMembers(rest))
DumpsItems(a) ==
    IF a = <<>> THEN <<>>
    ELSE Dumps(Head(a)) \o (IF Len(a) = 1 THEN <<>> ELSE <<",">> \o DumpsItems(Tail(a)))

ObjectSamples ==
    { Obj([a |-> Num(1)]),
      Obj([a |-> Obj([b |-> Num(1)])]),
      Obj([a |-> Num(1), b |-> Arr(<<Num(0), Str("c")>>)]),
      Obj([a |-> Obj([b |-> Obj(EmptyDict)]), c |-> Str("d")]) }

OtherBodies ==
    { <<>>,
      <<"1">>,
      Chars("-1.5e1"),
      Chars("NaN"),
      <<"{", "\n", "\"", "a", "\"", ":", "\t", "-", "1", "\r", "}">>,
      <<"{", "\"", "a", "\\", "n", "\"", ":", "\"", "\\", "u", "0", "0", "4", "1", "\\", "\"", "\"", "}">>,
      <<"{", "\"", "a", "\"", ":", "\"", "\n", "\"", "}">>,
      <<"{", "\"", "a", "\"", ":", "}">>,
      <<"{", "\"", "U", "+", "2", "8", "\"", ":", "1", ",",
        "\"", "\\", "u", "0", "0", "1", "c", "\"", ":", "2", "}">>,
      <<"{", "\"", "a", "\"", " ", ":", " ", "1", " ", "}">>,
      <<"\"", "a", "{", "b", "}", "\"">>,
      Dumps(Arr(<<Obj([a |-> Num(1)]), Obj([b |-> Num(1)])>>)),
      Dumps(Obj([a |-> Num(1)])) \o <<" ">> \o Dumps(Obj([b |-> Num(1)])) }

AffixAlphabet == {" ", "a", "{", "}"}
Affixes == UNION {[1..n -> AffixAlphabet] : n \in 0..MaxAffix}

ReplyTexts ==
    {Text(pre \o body \o post) :
        pre \in Affixes, post \in Affixes,
        body \in {Dumps(v) : v \in ObjectSamples} \cup OtherBodies}

InitExtract ==
    /\ apiKey = Text(<<"s", "k", "-", "1">>)
    /\ client = TRUE
    /\ data = Request(<<Blank, Blank, Blank>>, Blank)
    /\ pc = "extracting"
    /\ nsub = 0
    /\ tasks = <<[MarketTask("Fitness") EXCEPT !.st = "done", !.i = Len(Categories)]>>
    /\ calls = [c \in {<<1, i>> : i \in 1..Len(Categories)} |->
                  [query |-> MarketQueries("Fitness")[c[2]], st |-> "error", hits |-> 0]]
    /\ research = [market_data |-> EmptyMarketData, competitor_data |-> <<>>]
    /\ llm = "returned"
    /\ content \in ReplyTexts
    /\ extracted = None
    /\ analysis = None
    /\ result = Running
    /\ llmCalls = 1
    /\ researchRuns = 1
    /\ digest = Text(ProcessResearchData(research))
    /\ NoRoute

NextExtract ==
    \/ ExtractStep
    \/ EnrichStep

SpecExtract == InitExtract /\ [][NextExtract]_vars

(***************************************************************************)
(* One search_google call alone, over the pages the endpoint may serve:    *)
(* the request fails ("error": session.get raises, "status":               *)
(* raise_for_status raises, "parser": BeautifulSoup raises) or the page    *)
(* holds blocks, each a result (h3 and a present) or something else.       *)
(***************************************************************************)
MaxBlocks == 4      \* div.g blocks on a page

Pages ==
    {[st |-> e, blocks |-> <<>>] : e \in {"error", "status", "parser"}}
    \cup {[st |-> "ok", blocks |-> b] :
            b \in UNION {[1..n -> {"result", "other"}] : n \in 0..MaxBlocks}}

SearchCall(q, n) ==
    [st |-> "ready", query |-> q, num_results |-> n, page |-> None, requests |-> 0,
     ret |-> None]

\* line 31: the one session.get of the call; the endpoint answers
SearchSend(page) ==
    /\ sg.st = "ready"
    /\ sg' = [sg EXCEPT !.st = "sent", !.page = page, !.requests = @ + 1]
    /\ UNCHANGED <<web, digest, apiKey, client, data, pc, nsub, tasks, calls, research, llm, content,
                   extracted, analysis, result, llmCalls, researchRuns>>

\* line 32-67: the call returns
SearchReturn ==
    /\ sg.st = "sent"
    /\ sg' = [sg EXCEPT !.st = "returned",
                        !.ret = SearchPage(sg.query, sg.num_results, sg.page)]
    /\ UNCHANGED <<web, digest, apiKey, client, data, pc, nsub, tasks, calls, research, llm, content,
                   extracted, analysis, result, llmCalls, researchRuns>>

\* analyze_avatar_comprehensive has not been called
NotCalled ==
    /\ data = None
    /\ pc = "idle"
    /\ nsub = 0
    /\ tasks = <<>>
    /\ calls = <<>>
    /\ research = NoResearch
    /\ llm = "idle"
    /\ content = None
    /\ extracted = None
    /\ analysis = None
    /\ result = Running
    /\ llmCalls = 0
    /\ researchRuns = 0
    /\ digest = None

InitSearch ==
    /\ apiKey = None
    /\ client = FALSE
    /\ NotCalled
    /\ sg \in {SearchCall(q, n) : q \in {"a", "b c"}, n \in 0..(MaxBlocks + 1)}
    /\ reqBody = None
    /\ supabase = FALSE
    /\ rpc = "none"
    /\ analysisId = None
    /\ response = None
    /\ floats = None
    /\ storeLog = <<>>

NextSearch ==
    \/ \E page \in Pages : SearchSend(page)
    \/ SearchReturn

SpecSearch == InitSearch /\ [][NextSearch]_vars

(***************************************************************************)
(* POST /analyze (routes/analysis.py, analyze_market).  The request body   *)
(* is what request.get_json() returns: None, or a JSON value; an object is *)
(* a function from its keys, a string is a Text.                           *)
(***************************************************************************)
BodyGet(o, k, default) == IF k \in DOMAIN o THEN o[k] ELSE default

\* data.get(k, '').strip(): a value that is no str has no strip
StripField(o, k) ==
    LET v == BodyGet(o, k, Text(<<>>))
    IN  IF v.t = "text" THEN Val(Text(Strip(v.x))) ELSE Raised("AttributeError")

\* float(x) if x else None
FloatOrNone(v) == IF Truthy(v) THEN PyFloat(v) ELSE Val(None)

\* line 67-74: the three conversions in one try; a ValueError sets all
\* three to None, any other exception leaves the block
ParseFloats(p, g, b) ==
    LET Tried(fp, fg, fb) ==
            LET first == IF ~fp.ok THEN fp ELSE IF ~fg.ok THEN fg ELSE fb
            IN  IF first.ok THEN Val(<<fp.val, fg.val, fb.val>>)
                ELSE IF first.exc = "ValueError" THEN Val(<<None, None, None>>)
                ELSE Raised(first.exc)
    IN  Tried(FloatOrNone(p), FloatOrNone(g), FloatOrNone(b))

\* line 49: not data or not data.get('nicho'); a body that is no dict has
\* no get
NichoMissing(b) ==
    IF ~Truthy(b) THEN Val(TRUE)
    ELSE IF b.t # "obj" THEN Raised("AttributeError")
    ELSE Val(~Truthy(BodyGet(b.o, "nicho", None)))

\* the fields line 54-60 strip, in the order of the dict display
StrippedFields == <<"nicho", "produto", "descricao", "publico", "concorrentes", "dadosAdicionais">>

\* line 53-64: analysis_data; the first field that has no strip raises.
\* The value keeps the fields the core's builder and research read
AnalysisData(o) ==
    LET bad == {i \in 1..Len(StrippedFields) : ~StripField(o, StrippedFields[i]).ok}
    IN  IF bad # {} THEN StripField(o, StrippedFields[SetMin(bad)])
        ELSE Val([nicho |-> StripField(o, "nicho").val,
                  produto |-> StripField(o, "produto").val,
                  preco |-> BodyGet(o, "preco", Text(<<>>)),
                  concorrentes |-> StripField(o, "concorrentes").val,
                  objetivoReceita |-> BodyGet(o, "objetivoReceita", Text(<<>>)),
                  orcamentoMarketing |-> BodyGet(o, "orcamentoMarketing", Text(<<>>))])

Respond(status, doc) == [status |-> status, json |-> doc]
ErrorBody(e) == [error |-> "Erro interno do servidor", details |-> e]

\* save_initial_analysis_safe: the store's answer to insert
InsertOutcomes == {"raises", "norow", "row"}
\* update_analysis_record_safe: the store's answer to update
UpdateOutcomes == {"raises", "ok"}
RowId == Num(1)

\* line 46-84 and the handler of line 97: validation, analysis_data, the
\* numeric fields, the initial record, then the call of the core
AnalyzeMarket(ins) ==
    /\ rpc = "received"
    /\ LET missing == NichoMissing(reqBody)
           ad == IF missing.ok /\ ~missing.val THEN AnalysisData(reqBody.o) ELSE missing
           fl == IF ad.ok /\ missing.ok /\ ~missing.val
                 THEN ParseFloats(ad.val.preco, ad.val.objetivoReceita,
                                  ad.val.orcamentoMarketing)
                 ELSE ad
       IN  IF ~missing.ok \/ ~ad.ok \/ ~fl.ok
           THEN /\ response' = Respond(500, ErrorBody(IF ~missing.ok THEN missing.exc
                                                      ELSE IF ~ad.ok THEN ad.exc ELSE fl.exc))
                /\ rpc' = "responded"
                /\ UNCHANGED <<data, pc, floats, analysisId, storeLog>>
           ELSE IF missing.val
           THEN /\ response' = Respond(400, [error |-> "Nicho é obrigatório"])
                /\ rpc' = "responded"
                /\ UNCHANGED <<data, pc, floats, analysisId, storeLog>>
           ELSE /\ data' = ad.val
                /\ floats' = fl.val
                /\ IF supabase
                   THEN /\ storeLog' = Append(storeLog, [op |-> "insert", out |-> ins])
                        /\ analysisId' = IF ins = "row" THEN RowId ELSE None
                   ELSE UNCHANGED <<storeLog, analysisId>>
                /\ pc' = "start"
                /\ rpc' = "core"
                /\ UNCHANGED response
    /\ UNCHANGED <<sg, digest, reqBody, supabase, apiKey, client, nsub, tasks, calls, research, llm,
                   content, extracted, analysis, result, llmCalls, researchRuns>>

\* the status of the record the insert created, if any: 'processing' as
\* inserted (line 119), 'completed' once an update went through (line 149)
RecordStatus ==
    IF \E i \in 1..Len(storeLog) : storeLog[i] = [op |-> "update", out |-> "ok"]
    THEN "completed"
    ELSE IF \E i \in 1..Len(storeLog) : storeLog[i] = [op |-> "insert", out |-> "row"]
    THEN "processing"
    ELSE "none"

AnalyzeMarketFinishWithoutUpdate(upd) ==
    /\ rpc = "core"
    /\ pc = "done"
    /\ rpc' = "responded"
    /\ IF result.kind = "raised"
       THEN /\ response' = Respond(500, ErrorBody(result.exc))
            /\ UNCHANGED <<result, analysis>>
       ELSE IF supabase /\ Truthy(analysisId)
       THEN IF result.value.t = "obj"
            THEN LET Tagged(doc) ==
                         /\ result' = Returned(doc)
                         /\ analysis' = IF analysis = result.value THEN doc ELSE analysis
                         /\ response' = Respond(200, doc)
                 IN  Tagged(Obj(("analysis_id" :> analysisId) @@ result.value.o))
            ELSE /\ response' = Respond(500, ErrorBody("TypeError"))
                 /\ UNCHANGED <<result, analysis>>
       ELSE /\ response' = Respond(200, result.value)
            /\ UNCHANGED <<result, analysis>>
    /\ UNCHANGED <<sg, digest, reqBody, supabase, analysisId, floats, storeLog, apiKey, client,
                   data, pc, nsub, tasks, calls, research, llm, content, extracted,
                   llmCalls, researchRuns>>

\* line 84-103: the core has returned or raised; the record is updated when
\* there is one; line 92 writes analysis_id into the dict the core returned
\* (the dict `analysis` names too, when the core returned it from
\* _enrich_analysis); the document is the response
AnalyzeMarketFinish(upd) ==
    /\ rpc = "core"
    /\ pc = "done"
    /\ rpc' = "responded"
    /\ IF result.kind = "raised"
       THEN /\ response' = Respond(500, ErrorBody(result.exc))
            /\ UNCHANGED <<storeLog, result, analysis>>
       ELSE IF supabase /\ Truthy(analysisId)
       THEN IF result.value.t = "obj"
            THEN LET Tagged(doc) ==
                         /\ result' = Returned(doc)
                         /\ analysis' = IF analysis = result.value THEN doc ELSE analysis
                         /\ response' = Respond(200, doc)
                 IN  /\ storeLog' = Append(storeLog, [op |-> "update", out |-> upd])
                     /\ Tagged(Obj(("analysis_id" :> analysisId) @@ result.value.o))
            ELSE \* results.get raises inside update_analysis_record_safe (caught);
                 \* item assignment on a list raises TypeError at line 92
                 /\ response' = Respond(500, ErrorBody("TypeError"))
                 /\ UNCHANGED <<storeLog, result, analysis>>
       ELSE /\ response' = Respond(200, result.value)
            /\ UNCHANGED <<storeLog, result, analysis>>
    /\ UNCHANGED <<sg, digest, reqBody, supabase, analysisId, floats, apiKey, client, data, pc, nsub,
                   tasks, calls, research, llm, content, extracted, llmCalls, researchRuns>>

\* generate_fallback_analysis, line 177-190:
\* float(data.get(k, 0)) if data.get(k) is not None else default, on the
\* *_float fields of analysis_data (the defaults are those of the core's
\* builder: 997.0, 100000.0, 50000.0)
RouteFloatField(f, default) == IF f = None THEN Fin(default) ELSE f

\* generate_fallback_analysis(analysis_data): Val(document) or
\* Raised(exception); the document has no research_metadata
GenerateFallbackAnalysis(d, fl) ==
    LET nicho == Fmt(Get(d, "nicho", Text(Chars("Produto Digital"))))
        produto == Fmt(Get(d, "produto", Text(Chars("Produto Digital"))))
        preco == RouteFloatField(fl[1], DefaultPreco)
        objetivo_receita == RouteFloatField(fl[2], DefaultObjetivoReceita)
        orcamento_marketing == RouteFloatField(fl[3], DefaultOrcamentoMarketing)
        ltv == IntOfScaled(preco, 18, 10)
        cac == IntOfScaled(orcamento_marketing, 1, 100)
        conservador == IntOfScaled(objetivo_receita, 6, 10)
        realista == IntOfScaled(objetivo_receita, 1, 1)
        otimista == IntOfScaled(objetivo_receita, 15, 10)
    IN  IF ~ltv.ok THEN Raised(ltv.exc)
        ELSE IF ~cac.ok THEN Raised(cac.exc)
        ELSE IF ~conservador.ok THEN Raised(conservador.exc)
        ELSE Val(Obj(
          [escopo |-> [nicho_principal |-> nicho,
                       subnichos |-> <<nicho \o " para iniciantes", nicho \o " avançado",
                                       nicho \o " empresarial">>,
                       produto_ideal |-> produto,
                       proposta_valor |-> "A metodologia mais completa e prática para dominar "
                                          \o nicho \o " no mercado brasileiro"],
           avatar |-> Static("avatar"),
           dores_desejos |-> [descricao |-> "Dificuldade para se posicionar como autoridade em "
                                            \o nicho],
           concorrencia |-> [nome |-> "Academia Premium " \o nicho, preco |-> Money(ltv.val)],
           mercado |-> Static("mercado"),
           palavras_chave |-> [termo |-> "curso " \o nicho],
           metricas |-> [cac_medio |-> Money(cac.val), ltv_medio |-> Money(ltv.val)],
           voz_mercado |-> Static("voz_mercado"),
           projecoes |-> [conservador |-> Money(conservador.val),
                          realista |-> Money(realista.val),
                          otimista |-> Money(otimista.val)],
           plano_acao |-> Static("plano_acao"),
           insights_pesquisa |-> FallbackInsights]))

NichoInputs ==
    { Text(<<>>), Text(<<" ">>), Text(<<"\n">>), Text(Chars("Fitness")),
      Text(<<"\t">> \o Chars("Fitness") \o <<" ", "\n">>),
      None, Num(5) }

\* preco, objetivoReceita, orcamentoMarketing of a body (Absent: no key)
RouteNumericInputs ==
    { <<Absent, Absent, Absent>>,
      <<Text(<<"5", "0", "0">>), Absent, Num(0)>>,
      <<Text(<<"a">>), Text(<<"7">>), Absent>>,
      <<Text(Chars("5.5")), Flt(Ratio(25, 10)), Text(Chars("1e3"))>>,
      <<Arr(<<Num(1)>>), Absent, Absent>>,
      <<Text(<<"a">>), Arr(<<Num(1)>>), None>>,
      <<Absent, Text(Chars("inf")), Absent>> }

\* the JSON object with the keys whose value is not Absent
BodyOf(r) == Obj([k \in {x \in DOMAIN r : r[x] # Absent} |-> r[k]])

RouteBody(nicho, n, produto) ==
    BodyOf([nicho |-> nicho, preco |-> n[1], objetivoReceita |-> n[2],
                orcamentoMarketing |-> n[3], produto |-> produto])

\* descricao, publico and dadosAdicionais of a body: texts, or a value that
\* is no text
OtherFieldInputs ==
    { [descricao |-> Text(<<" ", "x">>), publico |-> Text(<<>>), dadosAdicionais |-> Text(<<"y", "\n">>)],
      [descricao |-> Num(5)],
      [publico |-> None],
      [dadosAdicionais |-> Arr(<<Num(1)>>)],
      [descricao |-> Text(<<"x">>), publico |-> Bool(TRUE), dadosAdicionais |-> Num(5)] }

RouteBodies ==
    {None, Obj(EmptyDict), Arr(<<Num(1)>>)}
    \cup {RouteBody(Absent, <<Text(<<"5">>), Absent, Absent>>, Absent),
          RouteBody(Text(Chars("Fitness")), <<Absent, Absent, Absent>>, None)}
    \cup {RouteBody(nicho, n, Text(Chars("Curso"))) : nicho \in NichoInputs, n \in RouteNumericInputs}
    \cup {Obj(other @@ RouteBody(Text(Chars("Fitness")), n, Text(Chars("Curso"))).o) :
            other \in OtherFieldInputs,
            n \in {<<Absent, Absent, Absent>>, <<Text(<<"a">>), Text(<<"7">>), Absent>>}}

\* the bodies sent to a process whose LLM client is configured
RouteBodiesWithClient ==
    {RouteBody(Text(Chars("Fitness")), n, Text(Chars("Curso"))) :
        n \in {<<Absent, Absent, Absent>>, <<Absent, Text(Chars("inf")), Absent>>}}

InitRoute ==
    /\ \/ apiKey = None /\ reqBody \in RouteBodies
       \/ apiKey = Text(<<"s", "k", "-", "1">>) /\ reqBody \in RouteBodiesWithClient
    /\ client = KeyAccepted(apiKey)
    /\ NotCalled
    /\ sg = NoSearchCall
    /\ supabase \in BOOLEAN
    /\ rpc = "received"
    /\ analysisId = None
    /\ response = None
    /\ floats = None
    /\ storeLog = <<>>

NextRoute ==
    \/ \E ins \in InsertOutcomes : AnalyzeMarket(ins)
    \/ Start
    \/ SubmitMarket
    \/ \E t \in 1..Len(tasks) : TaskStart(t)
    \/ \E t \in 1..Len(tasks) : SearchBegin(t)
    \/ \E t \in 1..Len(tasks), out \in Outcomes : SearchEnd(t, out)
    \/ \E t \in 1..Len(tasks) : TaskReturn(t)
    \/ WaitMarket
    \/ ComposePrompt
    \/ LLMCallRaises
    \/ \E c \in ModelReplies : LLMCallReturns(c)
    \/ ExtractStep
    \/ EnrichStep
    \/ \E upd \in UpdateOutcomes : AnalyzeMarketFinish(upd)

SpecRoute == InitRoute /\ [][NextRoute]_vars

(***************************************************************************)
(* The digest alone: the request is at line 228 with research data as      *)
(* _conduct_market_research returns it.  market_data holds the five        *)
(* categories (line 80-94), each with up to MaxHeld results, beside a      *)
(* competitor_data of up to MaxHeldCompetitors entries with up to MaxHeld   *)
(* results each; or the research was aborted (line 218) before line 208    *)
(* and market_data is {} beside an empty competitor_data.                  *)
(***************************************************************************)
MaxHeld == 3                \* results held per category and per competitor
MaxHeldCompetitors == 2     \* entries of competitor_data

HitsFor(q, n) == [r \in 1..n |-> Hit(q, r)]

\* market_data with n[i] results in category i
MarketDataOf(n) ==
    [c \in {Categories[i] : i \in 1..Len(Categories)} |->
        LET i == CHOOSE j \in 1..Len(Categories) : Categories[j] = c
        IN  HitsFor(MarketQueries("Fitness")[i], n[i])]

MarketDataSamples ==
    {MarketDataOf(<<a, b, 0, c, 0>>) : a \in 0..MaxHeld, b \in 0..MaxHeld, c \in 0..MaxHeld}

CompetitorInfo(name, n) ==
    [name |-> name, search_results |-> HitsFor(CompetitorQuery(name, "Fitness"), n)]

CompetitorNames == <<"A", "B", "C", "D">>

CompetitorDataSamples ==
    UNION {{[i \in 1..k |-> CompetitorInfo(CompetitorNames[i], n[i])] : n \in [1..k -> 0..MaxHeld]} :
              k \in 0..MaxHeldCompetitors}

ResearchSamples ==
    {[market_data |-> EmptyDict, competitor_data |-> <<>>]}
    \cup {[market_data |-> md, competitor_data |-> cd] :
            md \in MarketDataSamples, cd \in CompetitorDataSamples}

InitDigest ==
    /\ apiKey = Text(<<"s", "k", "-", "1">>)
    /\ client = TRUE
    /\ data = Request(<<Blank, Blank, Blank>>, Blank)
    /\ pc = "prompting"
    /\ nsub = 0
    /\ tasks = <<>>
    /\ calls = <<>>
    /\ research \in ResearchSamples
    /\ llm = "idle"
    /\ content = None
    /\ extracted = None
    /\ analysis = None
    /\ result = Running
    /\ llmCalls = 0
    /\ researchRuns = 1
    /\ digest = None
    /\ NoRoute

NextDigest == ComposePrompt

SpecDigest == InitDigest /\ [][NextDigest]_vars

(***************************************************************************)
(* The fallback builder alone: no client, so analyze_avatar_comprehensive  *)
(* returns _create_fallback_analysis(data) (line 156-158), over requests   *)
(* whose numeric fields take every kind of value.                          *)
(***************************************************************************)
FieldValues ==
    { Absent, None, Blank,
      Text(<<"0">>), Num(0),
      Text(<<"5", "0", "0">>), Num(500),
      Text(<<" ", "7", " ">>), Text(<<"\n", "7">>),
      Text(<<"-", "1">>), Text(<<"+", "5">>),
      Text(Chars("5.5")), Text(Chars("1e3")), Text(Chars("1_0")), Flt(Ratio(25, 10)),
      Text(<<"a">>),
      Text(Chars("inf")), Text(Chars("-Infinity")), Text(Chars("nan")),
      Arr(<<Num(1)>>) }

FallbackRequests ==
    {Request(<<p, g, b>>, Blank) : p \in FieldValues, g \in FieldValues, b \in FieldValues}

InitFallback ==
    /\ apiKey = None
    /\ client = FALSE
    /\ data \in FallbackRequests
    /\ Idle
    /\ NoRoute

NextFallback == Start

SpecFallback == InitFallback /\ [][NextFallback]_vars

(***************************************************************************)
(* Properties.                                                             *)
(***************************************************************************)
AllCategories == {Categories[i] : i \in 1..Len(Categories)}

\* the credential is absent, empty, or does not begin with s k -
Unconfigured ==
    \/ apiKey = None
    \/ Len(apiKey.x) < 3
    \/ <<apiKey.x[1], apiKey.x[2], apiKey.x[3]>> # <<"s", "k", "-">>

\* the document came from _create_fallback_analysis inside
\* _generate_ai_analysis: the LLM call raised, or nothing was extracted
DegradedByLLM ==
    \/ llm = "raised"
    \/ llm = "returned" /\ pc \in {"enriching", "done"} /\ ~Truthy(extracted)

\* C1: analyze_avatar_comprehensive never raises to its caller, whatever the
\* request's preco, objetivoReceita and orcamentoMarketing and whatever fails
C1_GenerateNeverRaises == result.kind # "raised"

\* C2: every returned document holds all required top-level keys, on the LLM
\* path (for any parseable reply) as on the fallback path
C2_AllRequiredKeys ==
    result.kind = "returned" =>
        /\ result.value.t = "obj"
        /\ RequiredKeys \subseteq DOMAIN result.value.o

\* C3: a returned document that the fallback builder produced (no client,
\* LLM call failed, nothing extracted) has research_metadata with
\* data_quality "fallback" and zero sources and competitors
C3_FallbackTagged ==
    (result.kind = "returned" /\ (~client \/ DegradedByLLM)) =>
        result.value.o["research_metadata"] = FallbackMetadata

\* with the credential absent or not starting with 'sk-' the client is
\* unconfigured and no search call and no LLM call is ever made
UnconfiguredMakesNoCalls ==
    Unconfigured =>
        /\ ~client
        /\ calls = <<>> /\ tasks = <<>> /\ researchRuns = 0
        /\ llmCalls = 0 /\ llm = "idle"

\* C4: with the credential absent or not starting with 'sk-' the client is
\* unconfigured, no search call and no LLM call is ever made, and the
\* request ends by returning the fallback document
C4_UnconfiguredNoCalls ==
    /\ UnconfiguredMakesNoCalls
    /\ (Unconfigured /\ pc = "done") =>
          /\ result.kind = "returned"
          /\ result.value.o["research_metadata"] = FallbackMetadata

\* C5: in one request the LLM is called at most once and the research batch
\* is started at most once; after a failed LLM call the request only goes on
\* to its end
C5_NoRetry ==
    /\ llmCalls <= 1
    /\ researchRuns <= 1
    /\ Len(tasks) <= 1 + MaxCompetitors
    /\ llm = "raised" => (llmCalls = 1 /\ pc \in {"enriching", "done"})

C5_Witness ==
    /\ pc = "done"
    /\ llm = "raised"
    /\ llmCalls = 1
    /\ researchRuns = 1
    /\ \E c \in DOMAIN calls : calls[c].st = "error"

\* C6: when the LLM call raised or nothing could be extracted, the returned
\* document has, for every top-level key but research_metadata, the value the
\* fallback builder gives for the request
C6_FallbackVerbatim ==
    (result.kind = "returned" /\ client /\ DegradedByLLM) =>
        LET f == CreateFallbackAnalysis(data)
        IN  /\ f.ok
            /\ result.value.t = "obj"
            /\ DOMAIN result.value.o = DOMAIN f.val.o
            /\ \A k \in DOMAIN f.val.o \ {"research_metadata"} :
                  result.value.o[k] = f.val.o[k]

C6_Witness ==
    /\ result.kind = "returned"
    /\ llm = "returned"
    /\ content = Text(Chars("not json at all"))
    /\ extracted = None
    /\ result.value.o["insights_pesquisa"] = FallbackInsights
    /\ result.value.o["research_metadata"] # FallbackMetadata

(***************************************************************************)
(* The extractor (SpecExtract)                                             *)
(***************************************************************************)
ExtractionDone == pc \in {"enriching", "done"} /\ llm = "returned" /\ content # None

NoBrace(x) == \A i \in 1..Len(x) : x[i] \notin {"{", "}"}

\* the text is free text without braces, then the JSON text of v, then free
\* text without braces
Wraps(x, v) ==
    LET body == Dumps(v)
    IN  \E i \in 0..(Len(x) - Len(body)) :
            /\ SubSeq(x, i + 1, i + Len(body)) = body
            /\ NoBrace(SubSeq(x, 1, i))
            /\ NoBrace(SubSeq(x, i + Len(body) + 1, Len(x)))

\* no JSON value can begin anywhere in the text
NoJsonStart(x) ==
    \A i \in 1..Len(x) :
        /\ x[i] \notin Digits \cup {"{", "[", "\""}
        /\ \A lit \in {"true", "false", "null", "NaN", "Infinity"} : ~LiteralAt(x, i, Chars(lit))

\* C7: text with brace-free prose around one JSON object yields that object,
\* nested objects included (the span from the first '{' to the last '}' is
\* parsed); text holding no JSON yields failure
C7_ExtractsBraceSpan ==
    ExtractionDone =>
        /\ \A v \in ObjectSamples : Wraps(content.x, v) => extracted = v
        /\ NoJsonStart(content.x) => extracted = None

C7_Witness ==
    /\ ExtractionDone
    /\ content = Text(<<"a", " ">> \o Dumps(Obj([a |-> Obj([b |-> Num(1)])])) \o <<" ", "a">>)
    /\ extracted = Obj([a |-> Obj([b |-> Num(1)])])

\* C8: when the span from the first '{' to the last '}' does not parse, the
\* whole trimmed text is parsed next, and failure is signalled only if that
\* fails too
C8_WholeTextAfterSpan ==
    ExtractionDone =>
        LET c == Strip(content.x)
            span == Slice(c, Find(c, "{"), RFind(c, "}") + 1)
            whole == JsonLoads(c)
        IN  (Find(c, "{") # -1 /\ RFind(c, "}") # -1 /\ ~JsonLoads(span).ok) =>
                extracted = IF whole.ok THEN whole.val ELSE None

(***************************************************************************)
(* The research batch (SpecResearch)                                       *)
(***************************************************************************)
\* the comma-separated segments of the competitor text, by the position
\* where each begins; a named segment holds something other than whitespace
SegStarts(x) == {1} \cup {j + 1 : j \in {i \in 1..Len(x) : x[i] = ","}}
SegStop(x, s) ==
    LET commas == {j \in s..Len(x) : x[j] = ","}
    IN  IF commas = {} THEN Len(x) ELSE SetMin(commas) - 1
SegInk(x, s) == {j \in s..SegStop(x, s) : ~IsWs(x[j])}
NamedSegs(x) == {s \in SegStarts(x) : SegInk(x, s) # {}}
SegRank(x, s) == Cardinality({u \in NamedSegs(x) : u <= s})
SegName(x, s) == Concat(SubSeq(x, SetMin(SegInk(x, s)), SetMax(SegInk(x, s))))

\* what search_google returns for a finished call
PageResults(c) ==
    IF c.st = "error" THEN <<>>
    ELSE [r \in 1..(IF c.hits < NumResults THEN c.hits ELSE NumResults) |-> Hit(c.query, r)]

\* C9: a batch issues 5 + min(k, 3) search calls for k non-blank competitor
\* names: one per category, one per each of the first 3 names, none for a
\* blank name or a name after the third
C9_SearchCallCount ==
    LET x == data.concorrentes.x
        k == Cardinality(NamedSegs(x))
        capped == IF k < 3 THEN k ELSE 3
    IN  /\ Cardinality(DOMAIN calls) <= 5 + capped
        /\ pc = "prompting" =>
              /\ Cardinality(DOMAIN calls) = 5 + capped
              /\ \A i \in 1..5 :
                    /\ <<1, i>> \in DOMAIN calls
                    /\ calls[<<1, i>>].query = MarketQueries("Fitness")[i]
              /\ \A s \in NamedSegs(x) :
                    SegRank(x, s) <= 3 =>
                        /\ <<1 + SegRank(x, s), 1>> \in DOMAIN calls
                        /\ calls[<<1 + SegRank(x, s), 1>>].query =
                              SegName(x, s) \o " Fitness preço curso online"

C9_Witness ==
    /\ pc = "prompting"
    /\ data.concorrentes = Text(<<"A", ",", ",", " ", ",", "B", " ", "C", ",", "D", ",", "E">>)
    /\ Cardinality(DOMAIN calls) = 8
    /\ calls[<<3, 1>>].query = "B C Fitness preço curso online"

\* C10: when the search call of a category fails, that category holds an
\* empty sequence while every other category and every competitor holds the
\* results of its own query, and the batch completes
C10_FailureStaysInItsSlot ==
    pc = "prompting" =>
        /\ DOMAIN research.market_data = AllCategories
        /\ \A i \in 1..Len(Categories) :
              research.market_data[Categories[i]] = PageResults(calls[<<1, i>>])
        /\ Len(research.competitor_data) = Len(tasks) - 1
        /\ \A j \in 1..Len(research.competitor_data) :
              /\ research.competitor_data[j].name = tasks[j + 1].arg
              /\ research.competitor_data[j].search_results = PageResults(calls[<<j + 1, 1>>])

C10_Witness ==
    /\ pc = "prompting"
    /\ Len(tasks) = 3
    /\ calls[<<1, 2>>].st = "error"
    /\ research.market_data["trends"] = <<>>
    /\ \A i \in {1, 3, 4, 5} : research.market_data[Categories[i]] # <<>>
    /\ \A j \in 1..2 : research.competitor_data[j].search_results # <<>>

(***************************************************************************)
(* The worker pool and the join                                            *)
(***************************************************************************)
\* C11: within one request at most 3 search calls are in flight at any time,
\* and at most 3 work items of the pool are running
C11_AtMostThreeInFlight ==
    /\ Cardinality(InFlight) <= 3
    /\ Cardinality(RunningTasks) <= 3

\* three searches are in flight while a fourth work item waits for a worker
C11_Witness ==
    /\ Cardinality(InFlight) = 3
    /\ Len(tasks) = 4
    /\ tasks[4].st = "queued"

\* the request has left _conduct_market_research
PastResearch ==
    \/ pc \in {"prompting", "generating", "extracting", "enriching"}
    \/ pc = "done" /\ client

\* C12: prompt composition and the LLM call begin only after every search
\* call of the request has completed and every work item of the pool has
\* ended
C12_JoinedBeforePrompt ==
    (PastResearch \/ llmCalls > 0) =>
        /\ InFlight = {}
        /\ \A t \in 1..Len(tasks) : tasks[t].st = "done"
        /\ \A t \in 1..Len(tasks) : \A i \in 1..CallsOf(t) : <<t, i>> \in DOMAIN calls

\* the model is called after a batch with a competitor search that failed
C12_Witness ==
    /\ pc = "generating"
    /\ Len(tasks) = 2
    /\ calls[<<2, 1>>].st = "error"
    /\ calls[<<1, 5>>].st = "ok"

(***************************************************************************)
(* The fallback builder (SpecFallback)                                     *)
(***************************************************************************)
BuilderReturned == pc = "done" /\ ~client /\ result.kind = "returned"

\* the field is supplied and float() accepts it
Parses(v) == v \notin {Absent, None} /\ PyFloat(v).ok

\* the number the contract asks for: the supplied value when it parses, else
\* the default
Wanted(v, default) == IF Parses(v) THEN PyFloat(v).val ELSE Fin(default)

FloorQuot(a, den) == a \div den
TruncQuot(a, den) == IF a >= 0 THEN a \div den ELSE 0 - ((0 - a) \div den)

\* C14: the builder computes with 997, 100000 and 50000 exactly when the
\* field is absent or does not parse, and with the supplied value whenever
\* it parses, the value 0 (number or text) included
C14_DefaultsOnlyWhenUnparsable ==
    BuilderReturned =>
        LET p == Wanted(data.preco, 997)
            g == Wanted(data.objetivoReceita, 100000)
            b == Wanted(data.orcamentoMarketing, 50000)
            doc == result.value.o
        IN  /\ doc.metricas.ltv_medio = Money(TruncQuot(p.n * 18, p.d * 10))
            /\ doc.metricas.cac_medio = Money(TruncQuot(b.n, b.d * 100))
            /\ doc.projecoes.realista = Money(TruncQuot(g.n, g.d))

\* C15: for every request the builder returns a document with every
\* required key, and never raises
C15_BuilderTotal ==
    (pc = "done" /\ ~client) =>
        /\ result.kind = "returned"
        /\ result.value.t = "obj"
        /\ RequiredKeys \subseteq DOMAIN result.value.o

\* C16 as stated: the five amounts are the floors of price * 1.8,
\* budget * 0.01, goal * 0.6, goal and goal * 1.5, written as R$ and the
\* integer in groups of three digits
C16_FloorOfProducts ==
    BuilderReturned =>
        LET p == NumericField(data, "preco", 997)
            g == NumericField(data, "objetivoReceita", 100000)
            b == NumericField(data, "orcamentoMarketing", 50000)
            doc == result.value.o
        IN  /\ doc.metricas.ltv_medio = Money(FloorQuot(p.n * 18, p.d * 10))
            /\ doc.metricas.cac_medio = Money(FloorQuot(b.n, b.d * 100))
            /\ doc.projecoes.conservador = Money(FloorQuot(g.n * 6, g.d * 10))
            /\ doc.projecoes.realista = Money(FloorQuot(g.n, g.d))
            /\ doc.projecoes.otimista = Money(FloorQuot(g.n * 15, g.d * 10))

\* C16 amended: the five amounts are the products truncated toward zero
\* (the floor when the number is not negative); price 500 and no goal give
\* ltv_medio R$ 900 and realista R$ 100.000
C16_TruncatedProducts ==
    BuilderReturned =>
        LET p == NumericField(data, "preco", 997)
            g == NumericField(data, "objetivoReceita", 100000)
            b == NumericField(data, "orcamentoMarketing", 50000)
            doc == result.value.o
        IN  /\ doc.metricas.ltv_medio = Money(TruncQuot(p.n * 18, p.d * 10))
            /\ doc.metricas.cac_medio = Money(TruncQuot(b.n, b.d * 100))
            /\ doc.projecoes.conservador = Money(TruncQuot(g.n * 6, g.d * 10))
            /\ doc.projecoes.realista = Money(TruncQuot(g.n, g.d))
            /\ doc.projecoes.otimista = Money(TruncQuot(g.n * 15, g.d * 10))
            /\ (data.preco = Text(<<"5", "0", "0">>) /\ data.objetivoReceita = Absent) =>
                  /\ doc.metricas.ltv_medio = "R$ 900"
                  /\ doc.projecoes.realista = "R$ 100.000"
                  /\ doc.projecoes.conservador = "R$ 60.000"
                  /\ doc.projecoes.otimista = "R$ 150.000"

C16_Witness ==
    /\ BuilderReturned
    /\ data.preco = Text(<<"5", "0", "0">>)
    /\ data.objetivoReceita = Absent
    /\ data.orcamentoMarketing = Text(<<"-", "1">>)
    /\ result.value.o.metricas.ltv_medio = "R$ 900"
    /\ result.value.o.metricas.cac_medio = "R$ 0"
    /\ result.value.o.projecoes.realista = "R$ 100.000"

(***************************************************************************)
(* search_google (SpecSearch)                                              *)
(***************************************************************************)
\* C17: a search_google call never raises, sends at most one request,
\* returns an empty sequence when the request, its status or the parser
\* fails, and returns at most num_results results
C17_SearchNeverRaises ==
    sg.st # "none" =>
        /\ sg.requests <= 1
        /\ sg.st = "returned" =>
              /\ sg.requests = 1
              /\ sg.ret.ok
              /\ Len(sg.ret.val) <= sg.num_results
              /\ sg.page.st # "ok" => sg.ret.val = <<>>
              /\ \A j \in 1..Len(sg.ret.val) :
                    /\ sg.ret.val[j].query = sg.query
                    /\ sg.page.blocks[sg.ret.val[j].rank] = "result"

\* a page with more results than asked for is cut to num_results
C17_Witness ==
    /\ sg.st = "returned"
    /\ sg.num_results = 3
    /\ sg.page = [st |-> "ok", blocks |-> <<"result", "other", "result", "result">>]
    /\ sg.ret = Val(<<Hit(sg.query, 1), Hit(sg.query, 3)>>)

(***************************************************************************)
(* Enrichment                                                              *)
(***************************************************************************)
\* some category of the research holds a search result
MarketDataFound ==
    \E c \in DOMAIN research.market_data : research.market_data[c] # <<>>

\* C20: the data_quality label that enrichment attaches is "high" exactly
\* when some market-data category holds a result, and "limited" otherwise
C20_QualityLabel ==
    (result.kind = "returned" /\ client /\ result.value.t = "obj") =>
        result.value.o["research_metadata"].data_quality =
            IF MarketDataFound THEN "high" ELSE "limited"

(***************************************************************************)
(* POST /analyze (SpecRoute)                                               *)
(***************************************************************************)
NumericKeys == {"preco", "objetivoReceita", "orcamentoMarketing"}
FloatIndex(k) ==
    CASE k = "preco" -> 1 [] k = "objetivoReceita" -> 2 [] k = "orcamentoMarketing" -> 3

\* the body is an object whose text fields are texts and whose niche is
\* not empty
WellFormedBody ==
    /\ reqBody.t = "obj"
    /\ BodyGet(reqBody.o, "nicho", None).t = "text"
    /\ BodyGet(reqBody.o, "nicho", None).x # <<>>
    /\ \A k \in {"produto", "descricao", "publico", "concorrentes", "dadosAdicionais"} :
          BodyGet(reqBody.o, k, Text(<<>>)).t = "text"

\* the field is supplied and float() does not accept it
FailsToParse(v) == v \notin {Absent, None} /\ ~PyFloat(v).ok

\* C13: a numeric field that does not parse, whatever JSON value it holds,
\* becomes null and the request is answered with the analysis, not with a
\* 400 or 500
C13_UnparsableNumericIsNull ==
    (rpc = "responded" /\ WellFormedBody) =>
        \A k \in NumericKeys :
            FailsToParse(BodyGet(reqBody.o, k, Absent)) =>
                /\ response.status = 200
                /\ floats[FloatIndex(k)] = None

\* the body is missing, or its niche is missing, null or the empty string
NicheMissingOrEmpty ==
    \/ reqBody = None
    \/ /\ reqBody.t = "obj"
       /\ BodyGet(reqBody.o, "nicho", None) \in {None, Text(<<>>)}

\* C18: a request without a niche is answered 400 before the store or the
\* core is touched, and the core is never called with an empty niche
C18_EmptyNicheRejected ==
    /\ (rpc = "responded" /\ NicheMissingOrEmpty) =>
          /\ response.status = 400
          /\ storeLog = <<>>
          /\ pc = "idle"
    /\ pc # "idle" => data.nicho.x # <<>>

\* the store is not configured, or insert raised or returned no row, or
\* update raised
PersistenceDown ==
    \/ ~supabase
    \/ \E i \in 1..Len(storeLog) : storeLog[i].out \in {"raises", "norow"}

\* C19: when the store is absent or fails, a request that passed validation
\* still gets the core's document with status 200
C19_WorksWithoutPersistence ==
    (rpc = "responded" /\ pc # "idle" /\ PersistenceDown) =>
        /\ pc = "done"
        /\ response.status = 200
        /\ result.kind = "returned"
        /\ response.json \in
              {result.value, Obj(("analysis_id" :> RowId) @@ result.value.o)}

(***************************************************************************)
(* Enrichment of an extracted object (Spec)                                *)
(***************************************************************************)
\* the model's reply gave a JSON object, which went on to _enrich_analysis
ExtractedObject ==
    /\ result.kind = "returned"
    /\ client
    /\ llm = "returned"
    /\ Truthy(extracted)
    /\ extracted.t = "obj"

\* C21: enrichment of an extracted object changes research_metadata only and
\* adds insights_pesquisa when the object has none: an insights_pesquisa of
\* the model is kept, a missing one is synthesised from the research, every
\* other key keeps its extracted value and no other key is added
C21_EnrichmentTouchesTwoKeys ==
    ExtractedObject =>
        /\ result.value.t = "obj"
        /\ DOMAIN result.value.o =
              DOMAIN extracted.o \cup {"research_metadata", "insights_pesquisa"}
        /\ \A k \in DOMAIN extracted.o \ {"research_metadata"} :
              result.value.o[k] = extracted.o[k]
        /\ "insights_pesquisa" \notin DOMAIN extracted.o =>
              /\ result.value.o["insights_pesquisa"].concorrentes_encontrados
                    = JoinNames(research.competitor_data)
              /\ result.value.o["insights_pesquisa"].dados_mercado
                    = "Análise baseada em pesquisa de mercado atualizada"

C21_Witness ==
    /\ ExtractedObject
    /\ extracted = Obj([a |-> Num(1)])
    /\ result.value.o["a"] = Num(1)
    /\ result.value.o["insights_pesquisa"].concorrentes_encontrados = "A"
    /\ "research_metadata" \in DOMAIN result.value.o

(***************************************************************************)
(* An exception inside _conduct_market_research (Spec)                     *)
(***************************************************************************)
\* the research of a configured client raised: concorrentes has no split
ResearchRaised ==
    /\ client
    /\ SplitRaises(Get(data, "concorrentes", Text(<<>>)))
    /\ pc \notin {"start", "submit"}

\* C22: an exception inside market research does not end the request: the
\* research data stays as it stood (empty), the prompt is composed from it
\* and the LLM is called once before the request ends
C22_ResearchFailureGoesOn ==
    ResearchRaised =>
        /\ research = NoResearch
        /\ pc \in {"generating", "extracting", "enriching", "done"} =>
              digest = Text(NoDataText)
        /\ pc \in {"extracting", "enriching", "done"} => llmCalls = 1
        /\ result.kind = "raised" => result.exc # "AttributeError"

C22_Witness ==
    /\ ResearchRaised
    /\ pc = "done"
    /\ result.kind = "returned"
    /\ llm = "returned"
    /\ llmCalls = 1
    /\ extracted = Obj([a |-> Num(1)])
    /\ digest = Text(NoDataText)
    /\ \E c \in DOMAIN calls : calls[c].st = "ok"

(***************************************************************************)
(* Dispatch of the category queries (SpecResearch)                         *)
(***************************************************************************)
\* the category queries of the request that are in flight
CategoryCallsInFlight == {c \in InFlight : tasks[c[1]].fn = "search_market_data"}

\* the category queries are made one after the other: no two are in flight
\* together, and one begins only after the one before it has returned
CategoryQueriesSerial ==
    /\ Cardinality(CategoryCallsInFlight) <= 1
    /\ \A c \in DOMAIN calls :
          (tasks[c[1]].fn = "search_market_data" /\ c[2] > 1) =>
              calls[<<c[1], c[2] - 1>>].st # "pending"

\* C23: every query of the batch is dispatched as a work item of its own, a
\* category query like a competitor query: no work item makes a second
\* search call, so the dispatch of a category query never waits for another
\* category query of the request to return
C23_OneQueryPerWorkItem ==
    \A c \in DOMAIN calls : c[2] = 1

(***************************************************************************)
(* The research digest (SpecDigest)                                        *)
(***************************************************************************)
\* the lines of the digest: its segments between "\n" pieces
DigestLines == Split(digest.x, "\n")

DigestComposed == pc = "generating" /\ digest # None

LineStarts(l, piece) == l # <<>> /\ l[1] = piece

\* of the lines, those that follow line i up to the next empty line: the
\* section that the header at line i opens
SectionAfter(lines, i) ==
    LET ends == {j \in (i + 1)..Len(lines) : lines[j] = <<>>}
        stop == IF ends = {} THEN Len(lines) + 1 ELSE SetMin(ends)
    IN  SubSeq(lines, i + 1, stop - 1)

ResultLinesAfter(lines, i) ==
    Len(SelectSeq(SectionAfter(lines, i), LAMBDA l : LineStarts(l, "- ")))

CategoryHeaders == {<<Upper(c), ":">> : c \in AllCategories}

\* C24: the digest holds at most 2 result lines under each category header
\* and at most 1 snippet line under each competitor name, whatever the
\* number of results the research data holds
C24_DigestCapped ==
    DigestComposed =>
        LET lines == DigestLines
        IN  /\ \A i \in 1..Len(lines) :
                  lines[i] \in CategoryHeaders => ResultLinesAfter(lines, i) <= 2
            /\ \A i \in 1..Len(lines) :
                  LineStarts(lines[i], "  * ") => i > 1 /\ LineStarts(lines[i - 1], "- ")

C24_Witness ==
    /\ DigestComposed
    /\ DOMAIN research.market_data # {}
    /\ Len(research.market_data["market_size"]) = 3
    /\ Len(research.competitor_data) = 2
    /\ Len(research.competitor_data[2].search_results) = 3
    /\ LET lines == DigestLines
       IN  /\ \E i \in 1..Len(lines) :
                 lines[i] = <<"MARKET_SIZE", ":">> /\ ResultLinesAfter(lines, i) = 2
           /\ Len(SelectSeq(lines, LAMBDA l : LineStarts(l, "  * "))) = 2

\* market_data holds no result: it is {} or every category it holds is empty
MarketDataEmpty ==
    \A c \in DOMAIN research.market_data : research.market_data[c] = <<>>

\* C30: the digest names every competitor of a non-empty competitor_data,
\* also when market_data holds nothing, and it is the no-research-data text
\* only when market_data and competitor_data are both empty
C30_DigestNamesCompetitors ==
    DigestComposed =>
        /\ LET lines == DigestLines
           IN  \A i \in 1..Len(research.competitor_data) :
                   \E j \in 1..Len(lines) :
                       lines[j] = <<"- ", research.competitor_data[i].name>>
        /\ digest = Text(NoDataText) =>
              (MarketDataEmpty /\ research.competitor_data = <<>>)

\* every category empty and two competitors held: both are named
C30_Witness ==
    /\ DigestComposed
    /\ DOMAIN research.market_data # {}
    /\ MarketDataEmpty
    /\ Len(research.competitor_data) = 2
    /\ digest # Text(NoDataText)
    /\ LET lines == DigestLines
       IN  /\ \E j \in 1..Len(lines) : lines[j] = <<"- ", "A">>
           /\ \E j \in 1..Len(lines) : lines[j] = <<"- ", "B">>

(***************************************************************************)
(* The stages of a request with a configured client (Spec)                 *)
(***************************************************************************)
\* Researching, Prompting, Generating, Extracting, Enriching, and the end
StageRank(p) ==
    CASE p \in {"start"} -> 0
      [] p \in {"submit", "wait_market", "collect", "research_failed"} -> 1
      [] p = "prompting" -> 2
      [] p = "generating" -> 3
      [] p = "extracting" -> 4
      [] p = "enriching" -> 5
      [] p = "done" -> 6

\* the stages are passed in their order and none is entered again
StagesInOrder == [][client => StageRank(pc') >= StageRank(pc)]_vars

\* C25: with a configured client the stages Researching, Prompting,
\* Generating, Extracting, Enriching are passed in that order, none is entered
\* again, and the request ends by returning a document
C25_LinearAndReturns ==
    [][client => /\ StageRank(pc') >= StageRank(pc)
                 /\ pc' = "done" => result'.kind = "returned"]_vars

(***************************************************************************)
(* What goes on to enrichment (SpecExtract)                                *)
(***************************************************************************)
\* C26: the value handed to enrichment and returned is always a JSON object:
\* a reply that parses to an array, a number, a string or a boolean never
\* becomes the analysis, and an empty object counts as a failed extraction
C26_AnalysisIsObject ==
    /\ pc \in {"enriching", "done"} /\ analysis # None => analysis.t = "obj"
    /\ result.kind = "returned" => result.value.t = "obj"
    /\ (ExtractionDone /\ extracted.t \in {"arr", "num", "str", "bool"}) =>
          analysis # extracted
    /\ (ExtractionDone /\ pc = "enriching" /\ extracted = Obj(EmptyDict)) =>
          analysis = CreateFallbackAnalysis(data).val

(***************************************************************************)
(* The record of an analysis (SpecRoute)                                   *)
(***************************************************************************)
\* the response carries the analysis_id the route adds at line 92
CarriesAnalysisId ==
    /\ response # None
    /\ response.status = 200
    /\ response.json.t = "obj"
    /\ "analysis_id" \in DOMAIN response.json.o

\* update is called only after an insert that returned an id
UpdateAfterInsert ==
    \A i \in 1..Len(storeLog) :
        storeLog[i].op = "update" =>
            \E j \in 1..(i - 1) : storeLog[j] = [op |-> "insert", out |-> "row"]

\* C27: whenever the response carries analysis_id the record of that id has
\* status 'completed', and update is called only after insert returned an id
C27_RecordCompleted ==
    /\ CarriesAnalysisId => RecordStatus = "completed"
    /\ UpdateAfterInsert

\* C27 as amended: whenever the response carries analysis_id, insert returned
\* that id and update was called once for it, after the core returned; the
\* record is 'completed' when that update went through and is left
\* 'processing' when it raised
C27_RecordUpdatedBestEffort ==
    /\ CarriesAnalysisId =>
          /\ response.json.o["analysis_id"] = RowId
          /\ Len(storeLog) = 2
          /\ storeLog[1] = [op |-> "insert", out |-> "row"]
          /\ storeLog[2].op = "update"
          /\ pc = "done" /\ result.kind = "returned"
          /\ RecordStatus = IF storeLog[2].out = "ok" THEN "completed" ELSE "processing"
    /\ UpdateAfterInsert

C27_Witness ==
    /\ CarriesAnalysisId
    /\ storeLog = <<[op |-> "insert", out |-> "row"], [op |-> "update", out |-> "raises"]>>
    /\ RecordStatus = "processing"

\* C28: the three numeric fields are parsed independently: each of
\* preco_float, objetivo_receita_float, orcamento_marketing_float is null
\* exactly when its own input is absent or does not parse, and is the parsed
\* number otherwise
C28_ParsedIndependently ==
    floats # None =>
        \A k \in NumericKeys :
            LET v == BodyGet(reqBody.o, k, Absent)
            IN  IF Parses(v) THEN floats[FloatIndex(k)] = PyFloat(v).val
                ELSE floats[FloatIndex(k)] = None

\* the analysis_data of the request has been built (line 53-74)
AnalysisDataBuilt == rpc \in {"core", "responded"} /\ floats # None

\* C29: for the analysis_data of every request the route's
\* generate_fallback_analysis and the core's _create_fallback_analysis end
\* alike and give the same value for every key other than research_metadata
C29_BuildersAgree ==
    AnalysisDataBuilt =>
        LET a == GenerateFallbackAnalysis(data, floats)
            b == CreateFallbackAnalysis(data)
        IN  /\ a.ok = b.ok
            /\ a.ok =>
                  /\ DOMAIN a.val.o \ {"research_metadata"}
                        = DOMAIN b.val.o \ {"research_metadata"}
                  /\ \A k \in DOMAIN a.val.o \ {"research_metadata"} :
                        a.val.o[k] = b.val.o[k]

\* the same, for the requests in which no numeric field fails to parse next
\* to another one that is supplied
NoMixedParseFailure ==
    \/ \A k \in NumericKeys : ~FailsToParse(BodyGet(reqBody.o, k, Absent))
    \/ \A k \in NumericKeys : ~Parses(BodyGet(reqBody.o, k, Absent))

BuildersAgreeUnlessMixed == (AnalysisDataBuilt /\ NoMixedParseFailure) => C29_BuildersAgree

====
